---------------------------- MODULE Spec2Model ----------------------------
(***************************************************************************)
(* PhishLook backend: the local phishing-URL index (buildIndexKeys,        *)
(* addRecordToIndex, loadLocalPhishDb, POST /phishlink) and the heuristic  *)
(* detector SimpleSuspiciousnessDetector (analyzeEmail and its scorers).   *)
(*                                                                         *)
(* Strings are sequences of character tokens.  A token stands for one or   *)
(* more characters that the modelled code never splits: "http:" is the     *)
(* scheme with its colon, "&amp;" an HTML entity, "a" a host label.        *)
(* Concatenation is \o, equality of strings is equality of sequences.      *)
(***************************************************************************)
EXTENDS Integers, Sequences, FiniteSets, Bags, TLC

VARIABLES
  phishUrlIndex,   \* Map key -> record                          (server.js:26)
  localDbStats,    \* { loaded, records, indexSize, lastLoaded } (server.js:24)
  running,         \* what occupies the JavaScript call stack: "none" | "load"
  loadArr,         \* loadLocalPhishDb: the entries of `arr` read so far
  loadLen,         \* loadLocalPhishDb: arr.length
  waiting,         \* a /phishlink request queued in the event loop, and when
                   \* it arrived: "none" | "idle" | "load"
  phishResp,       \* the last response of POST /phishlink
  analysis,        \* the detector's answer on its way to the caller; nothing
                   \* of an analysis is kept once it is delivered
  stats,           \* ollamaDetector.stats        (OllamaDetector.js:12-20)
  timeout,         \* ollamaDetector.timeout      (OllamaDetector.js:10)
  calls,           \* the asynchronous calls of the Ollama detector that
                   \* wait for an HTTP response: a bag
  remote,          \* the remote-lookup /phishlink request under way
  isAnalyzing,     \* task pane: let isAnalyzing         (taskpane.js:6)
  testEmailIndex,  \* task pane: let testEmailIndex      (taskpane.js:623)
  activations,     \* task pane: the calls of analyzeEmailWithAI and
                   \* testAIAnalysis suspended at an await: a bag
  display          \* task pane: what the page shows

indexVars == <<phishUrlIndex, localDbStats, running, loadArr, loadLen,
               waiting, phishResp>>

emailVars == <<analysis>>

aiVars == <<stats, timeout, calls>>

remoteVars == <<remote>>

paneVars == <<isAnalyzing, testEmailIndex, activations, display>>

vars == <<phishUrlIndex, localDbStats, running, loadArr, loadLen,
          waiting, phishResp, analysis, stats, timeout, calls, remote,
          isAnalyzing, testEmailIndex, activations, display>>

(***************************************************************************)
(* Generic helpers                                                         *)
(***************************************************************************)
Range(s) == {s[i] : i \in DOMAIN s}

Min(a, b) == IF a <= b THEN a ELSE b

Max(a, b) == IF a >= b THEN a ELSE b

\* s starts with p
StartsWith(s, p) == Len(s) >= Len(p) /\ SubSeq(s, 1, Len(p)) = p

\* s ends with p
EndsWith(s, p) ==
  Len(s) >= Len(p) /\ SubSeq(s, Len(s) - Len(p) + 1, Len(s)) = p

\* positions at which p occurs in s
Occurrences(s, p) ==
  {i \in 1..(Len(s) - Len(p) + 1) : SubSeq(s, i, i + Len(p) - 1) = p}

\* String.prototype.includes
Includes(s, p) == Occurrences(s, p) # {}

\* String.prototype.replace with a non-global pattern: the first occurrence
ReplaceFirst(s, p, r) ==
  IF Occurrences(s, p) = {} THEN s
  ELSE LET i == CHOOSE j \in Occurrences(s, p) :
                   \A k \in Occurrences(s, p) : j <= k
       IN  SubSeq(s, 1, i - 1) \o r \o SubSeq(s, i + Len(p), Len(s))

\* Set.prototype.add on an insertion-ordered Set kept as a sequence
SetAdd(keys, k) == IF k \in Range(keys) THEN keys ELSE Append(keys, k)

(***************************************************************************)
(* JavaScript values that reach the URL code: a string, or something that  *)
(* is not a string (undefined, null, a number).                            *)
(***************************************************************************)
JsStr(s) == [t |-> "string", s |-> s]

JsUndefined == [t |-> "undefined", s |-> <<>>]

JsNumber == [t |-> "number", s |-> <<>>]

\* !v for the values above (a number stands for a non-zero number)
Falsy(v) == v.t = "undefined" \/ (v.t = "string" /\ v.s = <<>>)

(***************************************************************************)
(* Characters                                                              *)
(***************************************************************************)
SchemeToks == {"http:", "https:", "HTTP:"}

WhiteSpace == {" "}

\* the tokens that hold an upper-case letter, and their lower-case form
UpperToLower ==
  [c \in {"HTTP:", "A", ".EXE", ".PDF", "INVOICE", "ACTION", "REQUIRED",
          "URGENT", "Account", "Act", "Click", "Confirm", "Congratulations",
          "Meeting", "Notice", "Please", "Suspension", "Thanks", "Urgent",
          "Verify", "You", "Your", "PayPal.com"} |->
     CASE c = "HTTP:"           -> "http:"
       [] c = "A"               -> "a"
       [] c = ".EXE"            -> ".exe"
       [] c = ".PDF"            -> ".pdf"
       [] c = "INVOICE"         -> "invoice"
       [] c = "ACTION"          -> "action"
       [] c = "REQUIRED"        -> "required"
       [] c = "URGENT"          -> "urgent"
       [] c = "Account"         -> "account"
       [] c = "Act"             -> "act"
       [] c = "Click"           -> "click"
       [] c = "Confirm"         -> "confirm"
       [] c = "Congratulations" -> "congratulations"
       [] c = "Meeting"         -> "meeting"
       [] c = "Notice"          -> "notice"
       [] c = "Please"          -> "please"
       [] c = "Suspension"      -> "suspension"
       [] c = "Thanks"          -> "thanks"
       [] c = "Urgent"          -> "urgent"
       [] c = "Verify"          -> "verify"
       [] c = "You"             -> "you"
       [] c = "Your"            -> "your"
       [] c = "PayPal.com"      -> "paypal.com"]

\* String.prototype.toLowerCase, per token
LowerTok(c) == IF c \in DOMAIN UpperToLower THEN UpperToLower[c] ELSE c

RECURSIVE ToLowerCase(_)
ToLowerCase(s) ==
  IF s = <<>> THEN <<>> ELSE <<LowerTok(Head(s))>> \o ToLowerCase(Tail(s))

\* String.prototype.trim
RECURSIVE TrimLeft(_)
TrimLeft(s) ==
  IF s # <<>> /\ Head(s) \in WhiteSpace THEN TrimLeft(Tail(s)) ELSE s

RECURSIVE TrimRight(_)
TrimRight(s) ==
  IF s # <<>> /\ s[Len(s)] \in WhiteSpace
  THEN TrimRight(SubSeq(s, 1, Len(s) - 1)) ELSE s

Trim(s) == TrimRight(TrimLeft(s))


(***************************************************************************)
(* decodeEntities (server.js:28-36)                                        *)
(***************************************************************************)
\* the five chained replace() calls, per token
DecodeTok(c) ==
  CASE c = "&amp;"  -> "&"
    [] c = "&quot;" -> "\""
    [] c = "&#39;"  -> "'"
    [] c = "&lt;"   -> "<"
    [] c = "&gt;"   -> ">"
    [] OTHER        -> c

decodeEntities(str) == [i \in DOMAIN str |-> DecodeTok(str[i])]

(***************************************************************************)
(* new URL(toParse) for http(s) URLs (WHATWG URL parser), on the strings   *)
(* of this model: scheme, slashes, host up to the first "/" or "?", path   *)
(* up to the first "?", query.  The result is u.protocol, u.hostname,      *)
(* u.pathname and u.search, or a TypeError (ok = FALSE).                   *)
(***************************************************************************)
\* code points that make a host invalid
ForbiddenHostToks == {" ", "<", ">", "\"", "&amp;", "&quot;", "&lt;", "&gt;"}

\* the longest prefix of s holding none of the tokens in stop
RECURSIVE TakeUntil(_, _)
TakeUntil(s, stop) ==
  IF s = <<>> \/ Head(s) \in stop THEN <<>>
  ELSE <<Head(s)>> \o TakeUntil(Tail(s), stop)

DropN(s, n) == SubSeq(s, n + 1, Len(s))

\* special-scheme authority: any number of slashes before the host
RECURSIVE SkipSlashes(_)
SkipSlashes(s) ==
  IF s # <<>> /\ Head(s) = "/" THEN SkipSlashes(Tail(s)) ELSE s

UrlFailure ==
  [ok |-> FALSE, protocol |-> <<>>, hostname |-> <<>>,
   pathname |-> <<>>, search |-> <<>>]

ParseUrl(s) ==
  IF s = <<>> \/ Head(s) \notin SchemeToks THEN UrlFailure
  ELSE
    LET afterScheme == SkipSlashes(Tail(s))
        host        == TakeUntil(afterScheme, {"/", "?"})
        afterHost   == DropN(afterScheme, Len(host))
        path        == TakeUntil(afterHost, {"?"})
        query       == DropN(afterHost, Len(path))
    IN  IF host = <<>> \/ Range(host) \cap ForbiddenHostToks # {}
        THEN UrlFailure
        ELSE [ok       |-> TRUE,
              protocol |-> <<LowerTok(Head(s))>>,
              hostname |-> ToLowerCase(host),
              pathname |-> IF path = <<>> THEN <<"/">> ELSE path,
              search   |-> IF Len(query) <= 1 THEN <<>> ELSE query]

(***************************************************************************)
(* buildIndexKeys (server.js:38-79)                                        *)
(***************************************************************************)
\* /^(https?:)?\/\//i.test(c)
hasScheme(c) ==
  \/ StartsWith(c, <<"/", "/">>)
  \/ (c # <<>> /\ Head(c) \in SchemeToks /\ StartsWith(Tail(c), <<"/", "/">>))

\* pathname.replace(/\/+$/, "")
RECURSIVE StripTrailingSlashes(_)
StripTrailingSlashes(p) ==
  IF p # <<>> /\ p[Len(p)] = "/"
  THEN StripTrailingSlashes(SubSeq(p, 1, Len(p) - 1)) ELSE p

\* lines 63-73: the keys of the trailing-slash toggle, in insertion order
ToggleKeys(u) ==
  LET proto == u.protocol \o <<"/", "/">>
      agn   == <<"/", "/">>
      fix(k) == ReplaceFirst(k, <<"?", "/">>, <<"/", "?">>)
  IN  IF u.pathname = <<"/">> THEN <<>>
      ELSE IF EndsWith(u.pathname, <<"/">>)
      THEN LET noSlash == StripTrailingSlashes(u.pathname)
           IN  << proto \o u.hostname \o noSlash \o u.search,
                  agn \o u.hostname \o noSlash \o u.search >>
      ELSE << fix(proto \o u.hostname \o u.pathname \o <<"/">> \o u.search),
              fix(agn \o u.hostname \o u.pathname \o <<"/">> \o u.search) >>

\* lines 47-76: the keys one candidate adds, in insertion order
CandidateKeys(c) ==
  IF c = <<>> THEN <<>>
  ELSE
    LET toParse == IF hasScheme(c) THEN c ELSE <<"http:", "/", "/">> \o c
        u       == ParseUrl(toParse)
    IN  IF ~u.ok THEN <<c>>
        ELSE <<c,
               u.protocol \o <<"/", "/">> \o u.hostname \o u.pathname \o u.search,
               <<"/", "/">> \o u.hostname \o u.pathname \o u.search>>
             \o ToggleKeys(u)

RECURSIVE AddAll(_, _)
AddAll(keys, new) ==
  IF new = <<>> THEN keys ELSE AddAll(SetAdd(keys, Head(new)), Tail(new))

\* Array.from(keys): the keys in insertion order, without duplicates
buildIndexKeys(rawUrl) ==
  IF Falsy(rawUrl) \/ rawUrl.t # "string" THEN <<>>
  ELSE
    LET trimmed == Trim(rawUrl.s)
        decoded == decodeEntities(trimmed)
    IN  AddAll(AddAll(<<>>, CandidateKeys(trimmed)),
               IF decoded = trimmed THEN <<>> ELSE CandidateKeys(decoded))


(***************************************************************************)
(* Inputs: the URL strings the model draws records and links from.         *)
(* A URL string is  scheme host path query  with each part drawn from a    *)
(* small set; some are not parseable (a scheme-relative "//a/p", a host    *)
(* holding a space).                                                       *)
(***************************************************************************)
MaxRecords == 2

SchemeParts ==
  { <<>>, <<"http:", "/", "/">>, <<"https:", "/", "/">>, <<"/", "/">> }

PathParts ==
  { <<>>, <<"/">>, <<"/", "p">>, <<"/", "p", "/">>, <<"/", "/">> }

QueryParts == { <<>>, <<"?", "/", "q">>, <<"?", "q", "&amp;", "q">> }

UrlStrings ==
  { sc \o <<"a">> \o pa \o q :
      sc \in SchemeParts, pa \in PathParts, q \in QueryParts }
    \cup { <<"HTTP:", "/", "/", "A", "/", "p">>,
           <<"A", "/", "p", "/">>,
           <<"HTTP:", "/", "/", "A", "/", "p", "?", "q", "&amp;", "q">>,
           <<"http:", "/", "/", "a", " ", "b", "/", "p">>,
           <<"a", "/", "p", "?", "q", "&", "q">>,
           <<"a", " ", "b">>,
           <<"b">> }

\* what a client may put in the links array of POST /phishlink
LinkValues ==
  {JsStr(u) : u \in UrlStrings}
    \cup { JsStr(<<" ", "http:", "/", "/", "a", "/", "p", " ">>),
           JsStr(<<" ">>), JsStr(<<>>), JsNumber }

\* entry number n of phishing_database.json: null, or a record with the
\* fields url, verified, online and phish_id (the entry's position)
Entry(n, u, v, o) ==
  [isNull |-> FALSE, url |-> u, verified |-> v, online |-> o, phish_id |-> n]

NullEntry ==
  [isNull |-> TRUE, url |-> JsUndefined, verified |-> "undefined",
   online |-> "undefined", phish_id |-> 0]

EntriesAt(n) ==
  { Entry(n, JsStr(<<"http:", "/", "/", "a", "/", "p">>), "yes", "yes"),
    Entry(n, JsStr(<<"https:", "/", "/", "a", "/", "p", "/">>), "YES", "no"),
    Entry(n, JsStr(<<"http:", "/", "/", "a", "/", "p">>), "no", "undefined"),
    Entry(n, JsStr(<<"HTTP:", "/", "/", "A", "/", "p", "?", "q", "&amp;", "q">>),
          "yes", "no"),
    Entry(n, JsStr(<<"a", "/", "/">>), "no", "yes"),
    Entry(n, JsStr(<<" ">>), "yes", "yes"),
    NullEntry }

(***************************************************************************)
(* The index: a Map from key to record (server.js:26)                      *)
(***************************************************************************)
EmptyMap == [k \in {} |-> NullEntry]

MapHas(m, k) == k \in DOMAIN m

MapSet(m, k, v) == [x \in (DOMAIN m) \cup {k} |-> IF x = k THEN v ELSE m[x]]

MapSize(m) == Cardinality(DOMAIN m)

\* a Map.set without the has() test: the last writer wins
RECURSIVE InsertKeysOverwrite(_, _, _)
InsertKeysOverwrite(index, keys, record) ==
  IF keys = <<>> THEN index
  ELSE InsertKeysOverwrite(MapSet(index, Head(keys), record),
                           Tail(keys), record)

\* lines 85-89: insert every key that is not present yet
RECURSIVE InsertKeys(_, _, _)
InsertKeys(index, keys, record) ==
  IF keys = <<>> THEN index
  ELSE InsertKeys(IF ~MapHas(index, Head(keys))
                  THEN MapSet(index, Head(keys), record) ELSE index,
                  Tail(keys), record)

\* addRecordToIndex (server.js:81-90)
addRecordToIndex(index, record) ==
  IF record.isNull \/ Falsy(record.url) THEN index
  ELSE InsertKeys(index, buildIndexKeys(record.url), record)


(***************************************************************************)
(* POST /phishlink (server.js:789-880)                                     *)
(***************************************************************************)
\* lines 806-808: trim the strings, drop what is empty or no string, and
\* keep the first copy of each (new Set keeps insertion order)
RECURSIVE Sanitize(_, _)
Sanitize(links, acc) ==
  IF links = <<>> THEN acc
  ELSE LET l == IF Head(links).t = "string" THEN Trim(Head(links).s) ELSE <<>>
       IN  Sanitize(Tail(links), IF l = <<>> THEN acc ELSE SetAdd(acc, l))

NoMatch == [found |-> FALSE, key |-> <<>>, rec |-> NullEntry]

\* the loop without its break: the last key of the list that the index has
RECURSIVE LookupScanNoBreak(_, _)
LookupScanNoBreak(index, keys) ==
  IF keys = <<>> THEN NoMatch
  ELSE IF MapHas(index, keys[Len(keys)])
       THEN [found |-> TRUE, key |-> keys[Len(keys)],
             rec |-> index[keys[Len(keys)]]]
       ELSE LookupScanNoBreak(index, SubSeq(keys, 1, Len(keys) - 1))

\* lines 817-823: the first key of the list that the index has
RECURSIVE LookupScan(_, _)
LookupScan(index, keys) ==
  IF keys = <<>> THEN NoMatch
  ELSE IF MapHas(index, Head(keys))
       THEN [found |-> TRUE, key |-> Head(keys), rec |-> index[Head(keys)]]
       ELSE LookupScan(index, Tail(keys))

\* String(x || "").toLowerCase() === "yes"
IsYes(x) == x \in {"yes", "YES"}

\* verified || online: the flags gate the verdict
IsPhishGated(verified, online) ==
  IF verified \/ online THEN "true" ELSE "false"

\* line 844: verified || online || true
IsPhishOf(verified, online) ==
  IF verified THEN "true" ELSE IF online THEN "true" ELSE "true"

\* lines 813-853: the result for one sanitized link
LinkResult(index, link) ==
  LET m == LookupScan(index, buildIndexKeys(JsStr(link)))
  IN  IF ~m.found
      THEN [url |-> link, inDatabase |-> FALSE, isPhish |-> "null",
            verified |-> FALSE, online |-> "null", phishId |-> 0,
            matchedKey |-> <<>>]
      ELSE [url |-> link, inDatabase |-> TRUE,
            isPhish |-> IsPhishOf(IsYes(m.rec.verified), IsYes(m.rec.online)),
            verified |-> IsYes(m.rec.verified),
            online |-> IF IsYes(m.rec.online) THEN "true" ELSE "false",
            phishId |-> m.rec.phish_id,
            matchedKey |-> m.key]

NoResponse ==
  [status |-> 0, dbLoaded |-> FALSE, total |-> 0, detectedCount |-> 0,
   results |-> <<>>, seenIndex |-> EmptyMap, seenArr |-> <<>>,
   seenLen |-> 0, queued |-> "none"]

\* the whole handler; seenIndex, seenArr, seenLen and queued are history:
\* the index the handler read, the load it belongs to, and when the request
\* arrived
PhishLinkResponse(links) ==
  IF links = <<>>
  THEN [NoResponse EXCEPT !.status = 400, !.queued = waiting]
  ELSE LET normalized == Sanitize(links, <<>>)
           results == [i \in DOMAIN normalized |->
                         LinkResult(phishUrlIndex, normalized[i])]
       IN  [status |-> 200,
            dbLoaded |-> localDbStats.loaded,
            total |-> Len(normalized),
            detectedCount |->
              Cardinality({i \in DOMAIN results : results[i].inDatabase}),
            results |-> results,
            seenIndex |-> phishUrlIndex,
            seenArr |-> loadArr,
            seenLen |-> loadLen,
            queued |-> waiting]

\* the bodies a client sends: one link, or a few links with repeats
LinkBatches ==
  { <<l>> : l \in LinkValues }
    \cup { <<>>,
           <<JsStr(<<"a", "/", "p">>), JsNumber,
             JsStr(<<" ", "a", "/", "p">>), JsStr(<<"b">>)>>,
           <<JsStr(<<"b">>), JsStr(<<"http:", "/", "/", "a", "/", "p">>),
             JsStr(<<"b">>)>> }

\* no analysis is under way
NoAnalysis == [kind |-> "none"]

\* new OllamaDetector() (OllamaDetector.js:7-21): the default timeout in
\* milliseconds and the initial stats.  averageResponseTime is an exact
\* fraction
DefaultTimeout == 30000

NewStats ==
  [available |-> FALSE, model |-> "llama3.1:8b", lastChecked |-> "null",
   error |-> "null", totalRequests |-> 0, successfulRequests |-> 0,
   averageResponseTime |-> [num |-> 0, den |-> 1]]

\* no call of the detector waits for a response: calls is a bag of calls
DetectorNew ==
  /\ stats = NewStats
  /\ timeout = DefaultTimeout
  /\ calls = EmptyBag

\* no /phishlink request with remote lookups is under way
NoRemote == [pc |-> "idle"]

RemoteIdle == remote = NoRemote

\* the page as showStatus, showLinksFound, displayAIResults and
\* displayPhishLinks last left it; nothing is shown when the script loads
NoDisplay == [status |-> "none", message |-> <<>>, links |-> "hidden",
              results |-> "hidden", phish |-> "hidden"]

\* the task pane script has run: no button was clicked yet
PaneLoaded ==
  /\ isAnalyzing = FALSE
  /\ testEmailIndex = 0
  /\ activations = EmptyBag
  /\ display = NoDisplay

(***************************************************************************)
(* The event loop.  loadLocalPhishDb is synchronous (readFileSync, no      *)
(* await) and the /phishlink handler has no await: each runs to completion *)
(* once started, and a handler starts only when the call stack is empty.   *)
(* The load is written as its steps so that this is what orders them.      *)
(***************************************************************************)
\* a load that yields between its steps (an awaited read or insert)
EventLoopYields == TRUE

EventLoopFree == running = "none"

\* a /phishlink request reaches the server at any time and waits its turn
RequestArrives ==
  /\ waiting = "none"
  /\ waiting' = (IF running = "load" THEN "load" ELSE "idle")
  /\ phishResp' = NoResponse
  /\ UNCHANGED <<phishUrlIndex, localDbStats, running, loadArr, loadLen>>
  /\ UNCHANGED <<emailVars, aiVars, remoteVars, paneVars>>

PhishLink ==
  /\ EventLoopFree
  /\ waiting # "none"
  /\ \E links \in LinkBatches : phishResp' = PhishLinkResponse(links)
  /\ waiting' = "none"
  /\ UNCHANGED <<phishUrlIndex, localDbStats, running, loadArr, loadLen>>
  /\ UNCHANGED <<emailVars, aiVars, remoteVars, paneVars>>

\* loadLocalPhishDb, lines 94-97: the file is read and parsed, the index
\* cleared
LoadBegin ==
  /\ EventLoopFree
  /\ \E n \in 0..MaxRecords : loadLen' = n
  /\ phishUrlIndex' = EmptyMap
  /\ loadArr' = <<>>
  /\ running' = "load"
  /\ phishResp' = NoResponse
  /\ UNCHANGED <<localDbStats, waiting>>
  /\ UNCHANGED <<emailVars, aiVars, remoteVars, paneVars>>

\* line 98: one turn of the loop, on the next entry of the array
LoadAdd ==
  /\ running = "load"
  /\ Len(loadArr) < loadLen
  /\ \E rec \in EntriesAt(Len(loadArr) + 1) :
       /\ phishUrlIndex' = addRecordToIndex(phishUrlIndex, rec)
       /\ loadArr' = Append(loadArr, rec)
  /\ UNCHANGED <<localDbStats, running, loadLen, waiting, phishResp>>
  /\ UNCHANGED <<emailVars, aiVars, remoteVars, paneVars>>

\* lines 99-102: the statistics of a successful load
LoadEnd ==
  /\ running = "load"
  /\ Len(loadArr) = loadLen
  /\ localDbStats' = [loaded |-> TRUE, records |-> loadLen,
                      indexSize |-> MapSize(phishUrlIndex),
                      lastLoaded |-> "set"]
  /\ running' = "none"
  /\ UNCHANGED <<phishUrlIndex, loadArr, loadLen, waiting, phishResp>>
  /\ UNCHANGED <<emailVars, aiVars, remoteVars, paneVars>>

\* lines 106-111: the file is missing, is no JSON or holds no array
LoadFail ==
  /\ EventLoopFree
  /\ localDbStats' = [loaded |-> FALSE, records |-> 0, indexSize |-> 0,
                      lastLoaded |-> "null"]
  /\ phishResp' = NoResponse
  /\ UNCHANGED <<phishUrlIndex, running, loadArr, loadLen, waiting>>
  /\ UNCHANGED <<emailVars, aiVars, remoteVars, paneVars>>

InitIndex ==
  /\ phishUrlIndex = EmptyMap
  /\ localDbStats = [loaded |-> FALSE, records |-> 0, indexSize |-> 0,
                     lastLoaded |-> "null"]
  /\ running = "none"
  /\ loadArr = <<>>
  /\ loadLen = 0
  /\ waiting = "none"
  /\ phishResp = NoResponse
  /\ analysis = NoAnalysis
  /\ DetectorNew
  /\ RemoteIdle
  /\ PaneLoaded

NextIndex ==
  \/ RequestArrives
  \/ PhishLink
  \/ LoadBegin
  \/ LoadAdd
  \/ LoadEnd
  \/ LoadFail

SpecIndex == InitIndex /\ [][NextIndex]_vars


(***************************************************************************)
(* SimpleSuspiciousnessDetector (server.js:136-630).                       *)
(*                                                                         *)
(* In the text of an email a token is a maximal run of word characters     *)
(* [A-Za-z0-9_] or one single other character, so a regular expression's   *)
(* \b falls between two tokens and nowhere else.                           *)
(*                                                                         *)
(* Numbers with a fractional part are exact fractions num/den in lowest    *)
(* terms.  The code computes them in IEEE doubles: a product such as       *)
(* 0.285 * 100 can land just below the exact value there, so a rounded     *)
(* score that is an exact half here may be one less in the code.           *)
(***************************************************************************)
RECURSIVE Gcd(_, _)
Gcd(a, b) == IF b = 0 THEN a ELSE Gcd(b, a % b)

\* the fraction n/d, d > 0, n >= 0
Frac(n, d) == [num |-> n \div Gcd(n, d), den |-> d \div Gcd(n, d)]

FracAdd(x, y) == Frac(x.num * y.den + y.num * x.den, x.den * y.den)

FracMul(x, y) == Frac(x.num * y.num, x.den * y.den)

\* x >= y
FracGeq(x, y) == x.num * y.den >= y.num * x.den

\* x > y
FracGt(x, y) == x.num * y.den > y.num * x.den

\* Math.min
FracMin(x, y) == IF FracGeq(x, y) THEN y ELSE x

\* Math.round(x * 100): the nearest integer, a half going up
RoundPercent(x) == (200 * x.num + x.den) \div (2 * x.den)

RECURSIVE SumSeq(_)
SumSeq(s) == IF s = <<>> THEN 0 ELSE Head(s) + SumSeq(Tail(s))

\* the characters outside [A-Za-z0-9_] that the texts hold
NonWordToks == {" ", ":", ".", "!", "?", "'", "\n", "\t"}

IsWord(c) == c \notin NonWordToks

\* \b between text[i] and text[i + 1]; i = 0 is the start of the text
WordBoundary(text, i) ==
  LET before == i >= 1 /\ IsWord(text[i])
      after  == i < Len(text) /\ IsWord(text[i + 1])
  IN  before # after

\* this.suspiciousPatterns
UrgencyPatterns ==
  <<
    <<"urgent">>, <<"immediately">>, <<"asap">>, <<"right", " ", "away">>,
    <<"act", " ", "now">>, <<"expires", " ", "today">>,
    <<"limited", " ", "time">>, <<"hurry">>, <<"deadline">>,
    <<"don", "'", "t", " ", "wait">>, <<"act", " ", "fast">>,
    <<"time", " ", "sensitive">>
  >>

AuthorityPatterns ==
  <<
    <<"bank">>, <<"government">>, <<"tax", " ", "office">>, <<"irs">>,
    <<"microsoft">>, <<"google">>, <<"apple">>, <<"paypal">>, <<"amazon">>,
    <<"security", " ", "team">>, <<"official", " ", "notice">>,
    <<"department">>
  >>

ThreatsPatterns ==
  <<
    <<"suspend">>, <<"close">>, <<"terminate">>, <<"deactivate">>,
    <<"freeze">>, <<"legal", " ", "action">>, <<"penalty">>, <<"fine">>,
    <<"court">>, <<"lawsuit">>
  >>

CredentialsPatterns ==
  <<
    <<"verify">>, <<"confirm">>, <<"update">>, <<"password">>,
    <<"username">>, <<"account", " ", "details">>,
    <<"personal", " ", "information">>, <<"ssn">>,
    <<"credit", " ", "card">>, <<"bank", " ", "account">>
  >>

RewardsPatterns ==
  <<
    <<"congratulations">>, <<"winner">>, <<"prize">>, <<"lottery">>,
    <<"million">>, <<"selected">>, <<"lucky">>, <<"free", " ", "money">>,
    <<"inheritance">>
  >>

\* new RegExp("\\b" + pattern + "\\b", "gi") matches at token i
MatchAt(text, p, i) ==
  /\ i + Len(p) - 1 <= Len(text)
  /\ LowerTok(text[i]) = p[1]
  /\ ToLowerCase(SubSeq(text, i, i + Len(p) - 1)) = p
  /\ WordBoundary(text, i - 1)
  /\ WordBoundary(text, i + Len(p) - 1)

\* text.match(regex).length: the matches from token i on, left to right,
\* each search resuming where the last match ended
RECURSIVE CountMatches(_, _, _)
CountMatches(text, p, i) ==
  IF i > Len(text) THEN 0
  ELSE IF MatchAt(text, p, i)
       THEN 1 + CountMatches(text, p, i + Len(p))
       ELSE CountMatches(text, p, i + 1)

\* the count with every phrase counted once at most
CategoryMatchesOnce(text, patterns) ==
  SumSeq([k \in DOMAIN patterns |->
            Min(CountMatches(text, patterns[k], 1), 1)])

CategoryMatches(text, patterns) ==
  SumSeq([k \in DOMAIN patterns |-> CountMatches(text, patterns[k], 1)])

countSuspiciousPatterns(text) ==
  LET urgency     == CategoryMatches(text, UrgencyPatterns)
      authority   == CategoryMatches(text, AuthorityPatterns)
      threats     == CategoryMatches(text, ThreatsPatterns)
      credentials == CategoryMatches(text, CredentialsPatterns)
      rewards     == CategoryMatches(text, RewardsPatterns)
  IN  [urgency |-> urgency, authority |-> authority, threats |-> threats,
       credentials |-> credentials, rewards |-> rewards,
       total |-> urgency + authority + threats + credentials + rewards]

\* the sentiment without Math.min(normalizedScore, 1)
analyzeSentimentUncapped(polarity) ==
  [score |-> polarity, suspiciousness |-> Frac(Max(0, 0 - polarity), 10)]

\* sentiment.analyze comes from the npm package `sentiment`, which is not
\* part of the repository: its integer score is an input of the analysis
analyzeSentiment(polarity) ==
  [score |-> polarity,
   suspiciousness |-> FracMin(Frac(Max(0, 0 - polarity), 10), Frac(1, 1))]

\* text.split(sep): the pieces between the occurrences of the token sep
RECURSIVE Split(_, _)
Split(text, sep) ==
  LET first == TakeUntil(text, {sep})
  IN  IF Len(first) = Len(text) THEN <<first>>
      ELSE <<first>> \o Split(DropN(text, Len(first) + 1), sep)

\* the tokens made of the letters A-Z only, and how many letters they hold
CapsLength ==
  [c \in {"URGENT", "ACTION", "REQUIRED", "INVOICE", "A"} |->
     CASE c = "URGENT"   -> 6
       [] c = "ACTION"   -> 6
       [] c = "REQUIRED" -> 8
       [] c = "INVOICE"  -> 7
       [] c = "A"        -> 1]

\* w.length > 3 && w === w.toUpperCase() && /^[A-Z]+$/.test(w)
IsCapsWord(w) ==
  Len(w) = 1 /\ w[1] \in DOMAIN CapsLength /\ CapsLength[w[1]] > 3

CountTok(text, c) == Cardinality({i \in DOMAIN text : text[i] = c})

checkPunctuation(text) ==
  LET exclamations == CountTok(text, "!")
      questions    == CountTok(text, "?")
      words        == Split(text, " ")
      capsWords    == Cardinality({i \in DOMAIN words : IsCapsWord(words[i])})
      score ==
        FracAdd(IF exclamations > 3 THEN Frac(2, 10) ELSE Frac(0, 1),
        FracAdd(IF questions > 3 THEN Frac(1, 10) ELSE Frac(0, 1),
                IF capsWords > 2 THEN Frac(3, 10) ELSE Frac(0, 1)))
  IN  FracMin(score, Frac(1, 1))

(***************************************************************************)
(* Links (server.js:374-435).  An HTML body is the sequence of its nodes:  *)
(* an anchor <a href="url">text</a> or a run of text.  In a link a host    *)
(* name or a file extension is one token ("paypal.com", ".exe").           *)
(***************************************************************************)
Anchor(url, text) == [tag |-> "a", url |-> url, text |-> text]

TextNode(text) == [tag |-> "text", url |-> <<>>, text |-> text]

\* this.urlPatterns
Shorteners == {"bit.ly", "tinyurl.com", "t.co", "goo.gl", "ow.ly"}

SuspiciousExts == {".exe", ".scr", ".bat", ".cmd", ".zip"}

\* the generic anchor texts of hasTextMismatch
GenericTexts ==
  { <<"click", " ", "here">>, <<"read", " ", "more">>, <<"download">>,
    <<"continue">> }

\* the tokens that /([a-zA-Z0-9-]+\.[a-zA-Z]{2,})/g matches
DomainToks ==
  {"paypal.com", "PayPal.com", "example.org", "totally-different-domain.ru",
   "bit.ly", "t.co"}

\* linkRegex.exec in a loop: the anchors with a non-empty href, in order
RECURSIVE ExtractLinks(_)
ExtractLinks(html) ==
  IF html = <<>> THEN <<>>
  ELSE LET n == Head(html)
       IN  IF n.tag = "a" /\ n.url # <<>>
           THEN <<[url |-> n.url, text |-> Trim(n.text)]>>
                  \o ExtractLinks(Tail(html))
           ELSE ExtractLinks(Tail(html))

\* the part of hasTextMismatch inside the try: urlObj is new URL(...),
\* textDomains is text.match(domainRegex)
DomainsDiffer(urlObj, textDomains) ==
  /\ urlObj.ok
  /\ \E td \in textDomains : ~Includes(urlObj.hostname, <<LowerTok(td)>>)

hasTextMismatch(text, url) ==
  IF text = <<>> \/ url = <<>> THEN FALSE
  ELSE IF \E g \in GenericTexts : Includes(ToLowerCase(text), g) THEN FALSE
  ELSE DomainsDiffer(ParseUrl(IF Head(url) \in {"http:", "https:"} THEN url
                              ELSE <<"http:", "/", "/">> \o url),
                     Range(text) \cap DomainToks)

\* reasons.push(reason) under a condition
ReasonIf(cond, reason) == IF cond THEN <<reason>> ELSE <<>>

\* { suspicious: reasons.length > 0, reasons }
Verdict(reasons) == [suspicious |-> reasons # <<>>, reasons |-> reasons]

isLinkSuspicious(link) ==
  Verdict(ReasonIf(hasTextMismatch(link.text, link.url), "text_mismatch")
            \o ReasonIf(\E s \in Shorteners : Includes(link.url, <<s>>),
                        "url_shortener")
            \o ReasonIf(\E ext \in SuspiciousExts :
                          Includes(link.url, <<ext>>),
                        "suspicious_extension"))

CountWith(details, reason) ==
  Cardinality({i \in DOMAIN details : reason \in Range(details[i].reasons)})

\* the entry of linkDetails for a link and its verdict
LinkDetail(link, res) ==
  [url |-> link.url, anchorText |-> link.text,
   isSuspicious |-> res.suspicious, reasons |-> res.reasons]

\* the counts with the score taken over one link more than there are
LinkSummaryOneMore(linkDetails) ==
  [totalLinks |-> Len(linkDetails),
   suspiciousLinks |->
     Cardinality({i \in DOMAIN linkDetails : linkDetails[i].isSuspicious}),
   mismatches |-> CountWith(linkDetails, "text_mismatch"),
   shorteners |-> CountWith(linkDetails, "url_shortener"),
   suspiciousExtensions |-> CountWith(linkDetails, "suspicious_extension"),
   suspicionScore |->
     Frac(Cardinality({i \in DOMAIN linkDetails :
                         linkDetails[i].isSuspicious}),
          Len(linkDetails) + 1),
   details |-> linkDetails]

\* lines 397-406: the counts over linkDetails
LinkSummary(linkDetails) ==
  LET suspiciousCount ==
        Cardinality({i \in DOMAIN linkDetails : linkDetails[i].isSuspicious})
  IN  [totalLinks |-> Len(linkDetails),
       suspiciousLinks |-> suspiciousCount,
       mismatches |-> CountWith(linkDetails, "text_mismatch"),
       shorteners |-> CountWith(linkDetails, "url_shortener"),
       suspiciousExtensions |->
         CountWith(linkDetails, "suspicious_extension"),
       suspicionScore |-> IF Len(linkDetails) > 0
                          THEN Frac(suspiciousCount, Len(linkDetails))
                          ELSE Frac(0, 1),
       details |-> linkDetails]

\* links.map(...)
RECURSIVE LinkDetails(_)
LinkDetails(links) ==
  IF links = <<>> THEN <<>>
  ELSE <<LinkDetail(Head(links), isLinkSuspicious(Head(links)))>>
         \o LinkDetails(Tail(links))

analyzeLinks(htmlBody) ==
  IF htmlBody = <<>>
  THEN [totalLinks |-> 0, suspiciousLinks |-> 0,
        suspicionScore |-> Frac(0, 1), details |-> <<>>]
  ELSE LinkSummary(LinkDetails(ExtractLinks(htmlBody)))

(***************************************************************************)
(* Attachments (server.js:437-579).  A file name is a sequence of tokens:  *)
(* a token that starts with "." is a dot and the characters up to the next *)
(* dot (".pdf"), any other token holds no dot ("invoice").                 *)
(***************************************************************************)
\* this.attachmentPatterns
DangerousExtensions ==
  {".exe", ".scr", ".bat", ".cmd", ".com", ".pif", ".vbs", ".js", ".jar",
   ".app", ".deb", ".pkg", ".dmg", ".msi", ".run"}

ArchiveExtensions ==
  {".zip", ".rar", ".7z", ".tar", ".gz", ".bz2", ".cab", ".ace"}

ScriptExtensions ==
  {".vbs", ".vbe", ".js", ".jse", ".wsf", ".wsh", ".ps1", ".ps2"}

SuspiciousNames ==
  {"invoice", "receipt", "document", "payment", "statement", "order",
   "delivery", "confirmation", "urgent", "important", "banking", "security",
   "update", "patch", "install"}

DocumentExtensions ==
  {".pdf", ".doc", ".docx", ".xls", ".xlsx", ".ppt", ".pptx", ".txt", ".rtf",
   ".odt", ".ods", ".odp"}

\* docExts and execExts of hasDoubleExtension, each with the dot that
\* split(".") removed
DocExts == {".pdf", ".doc", ".xls", ".ppt", ".txt", ".jpg", ".png"}

ExecExts == {".exe", ".scr", ".bat", ".com", ".pif"}

\* lower.endsWith(ext) for some ext of exts
EndsWithAny(filename, exts) ==
  filename # <<>> /\ LowerTok(filename[Len(filename)]) \in exts

hasDangerousExtension(filename) == EndsWithAny(filename, DangerousExtensions)

isArchiveFile(filename) == EndsWithAny(filename, ArchiveExtensions)

isScriptFile(filename) == EndsWithAny(filename, ScriptExtensions)

hasSuspiciousName(filename) ==
  \E i \in DOMAIN filename : LowerTok(filename[i]) \in SuspiciousNames

\* hasDoubleExtension without the two toLowerCase calls
DoubleExtensionCaseSensitive(filename) ==
  /\ Len(filename) >= 2
  /\ filename[Len(filename) - 1] \in DocExts
  /\ filename[Len(filename)] \in ExecExts

\* the last two parts of filename.split("."), of at least three
hasDoubleExtension(filename) ==
  /\ Len(filename) >= 2
  /\ LowerTok(filename[Len(filename) - 1]) \in DocExts
  /\ LowerTok(filename[Len(filename)]) \in ExecExts

DangerousSizeLimit == 10000

DocumentSizeLimit == 50 * 1024 * 1024

\* hasSuspiciousSize without its first line
SuspiciousSizeUnguarded(filename, size) ==
  \/ hasDangerousExtension(filename) /\ size < DangerousSizeLimit
  \/ EndsWithAny(filename, DocumentExtensions) /\ size > DocumentSizeLimit

hasSuspiciousSize(filename, size) ==
  IF size = 0 THEN FALSE
  ELSE IF hasDangerousExtension(filename) /\ size < DangerousSizeLimit
       THEN TRUE
       ELSE EndsWithAny(filename, DocumentExtensions)
              /\ size > DocumentSizeLimit

\* an entry of emailData.attachments; size -1: the entry has no size;
\* isNull: the entry is null
Attachment(name, filename, size) ==
  [isNull |-> FALSE, name |-> name, filename |-> filename, size |-> size]

NullAttachment ==
  [isNull |-> TRUE, name |-> JsUndefined, filename |-> JsUndefined,
   size |-> 0 - 1]

\* attachment.name || attachment.filename, with nothing to fall back on
FilenameNoDefault(attachment) ==
  IF ~Falsy(attachment.name) THEN attachment.name ELSE attachment.filename

\* attachment.name || attachment.filename || "unknown"
FilenameOf(attachment) ==
  IF ~Falsy(attachment.name) THEN attachment.name
  ELSE IF ~Falsy(attachment.filename) THEN attachment.filename
  ELSE JsStr(<<"unknown">>)

\* lines 485-487: reasons, isSuspicious and riskLevel before the checks.
\* levels is history: riskLevel after each of the checks made so far.
NoFindings ==
  [reasons |-> <<>>, isSuspicious |-> FALSE, riskLevel |-> "low",
   levels |-> <<>>]

\* the findings after a check that left riskLevel at level
Checked(st, fired, reason, level) ==
  [reasons |-> IF fired THEN Append(st.reasons, reason) ELSE st.reasons,
   isSuspicious |-> st.isSuspicious \/ fired,
   riskLevel |-> level,
   levels |-> Append(st.levels, level)]

\* a medium check without the test of !isSuspicious
CheckMediumAlways(st, fired, reason) ==
  Checked(st, fired, reason, IF fired THEN "medium" ELSE st.riskLevel)

\* lines 498-504, 510-516 and 522-528: the reason is pushed, and only a
\* file not yet suspicious becomes "medium"
CheckMedium(st, fired, reason) ==
  Checked(st, fired, reason,
          IF fired /\ ~st.isSuspicious THEN "medium" ELSE st.riskLevel)

\* lines 493-497, 505-509 and 517-521: the reason is pushed and the level
\* is "high"
CheckHigh(st, fired, reason) ==
  Checked(st, fired, reason, IF fired THEN "high" ELSE st.riskLevel)

\* the six checks of the try block, in order, on a file name that is a
\* string
TryBlock(f, size) ==
  CheckMedium(
    CheckHigh(
      CheckMedium(
        CheckHigh(
          CheckMedium(
            CheckHigh(NoFindings,
                      hasDangerousExtension(f), "dangerous_extension"),
            isArchiveFile(f), "archive_file"),
          isScriptFile(f), "script_file"),
        hasSuspiciousName(f), "suspicious_name"),
      hasDoubleExtension(f), "double_extension"),
    hasSuspiciousSize(f, size), "suspicious_size")

\* lines 532-539: the object returned
AttachmentResult(filename, size, st) ==
  [threw |-> FALSE, filename |-> filename, size |-> size,
   isSuspicious |-> st.isSuspicious, reasons |-> st.reasons,
   riskLevel |-> st.riskLevel, levels |-> st.levels]

\* lines 492-531 on the file name and size of lines 488-489
AnalyzeFile(filename, size) ==
  AttachmentResult(filename, size,
                   IF filename.t = "string" THEN TryBlock(filename.s, size)
                   ELSE NoFindings)

\* threw: line 488 read a property of null, outside the try; a file name
\* that is no string makes toLowerCase throw inside the try, before any
\* reason is pushed, and the catch swallows it
analyzeSingleAttachment(attachment) ==
  IF attachment.isNull THEN [threw |-> TRUE]
  ELSE AnalyzeFile(FilenameOf(attachment),
                   IF attachment.size < 0 THEN 0 ELSE attachment.size)

CountSuspiciousWith(details, reason) ==
  Cardinality({i \in DOMAIN details :
                 details[i].isSuspicious
                   /\ reason \in Range(details[i].reasons)})

\* lines 462-481: the counts over attachmentDetails
AttachmentSummary(details) ==
  IF \E i \in DOMAIN details : details[i].threw THEN [threw |-> TRUE]
  ELSE
    LET suspiciousCount ==
          Cardinality({i \in DOMAIN details : details[i].isSuspicious})
    IN  [threw |-> FALSE,
         totalAttachments |-> Len(details),
         suspiciousAttachments |-> suspiciousCount,
         dangerousFiles |->
           CountSuspiciousWith(details, "dangerous_extension"),
         archiveFiles |-> CountSuspiciousWith(details, "archive_file"),
         scriptFiles |-> CountSuspiciousWith(details, "script_file"),
         suspiciousNames |-> CountSuspiciousWith(details, "suspicious_name"),
         suspicionScore |->
           FracMin(Frac(suspiciousCount, Len(details)), Frac(1, 1)),
         details |-> details]

\* the loop of lines 458-460
RECURSIVE AttachmentDetails(_)
AttachmentDetails(attachments) ==
  IF attachments = <<>> THEN <<>>
  ELSE <<analyzeSingleAttachment(Head(attachments))>>
         \o AttachmentDetails(Tail(attachments))

analyzeAttachments(attachments) ==
  IF attachments = <<>>
  THEN [threw |-> FALSE, totalAttachments |-> 0, suspiciousAttachments |-> 0,
        dangerousFiles |-> 0, archiveFiles |-> 0, scriptFiles |-> 0,
        suspiciousNames |-> 0, suspicionScore |-> Frac(0, 1),
        details |-> <<>>]
  ELSE AttachmentSummary(AttachmentDetails(attachments))

(***************************************************************************)
(* The texts analysed.  countSuspiciousPatterns depends on the text alone, *)
(* so its value on each of them is computed once.                          *)
(***************************************************************************)
\* testEmail of GET /api/test (server.js:703-707)
TestSubject ==
  <<"URGENT", ":", " ", "Account", " ", "Suspension", " ", "Notice">>

TestBody ==
  <<"Your", " ", "bank", " ", "account", " ", "will", " ", "be", " ",
    "suspended", " ", "immediately", " ", "unless", " ", "you", " ",
    "verify", " ", "your", " ", "information", " ", "right", " ", "away",
    ".", " ", "Click", " ", "here", " ", "to", " ", "update", " ", "your",
    " ", "password", " ", "and", " ", "personal", " ", "details", ".", " ",
    "Act", " ", "now", " ", "or", " ", "lose", " ", "access", " ",
    "forever", "!">>

AlarmSubject == <<"URGENT", " ", "ACTION", " ", "REQUIRED">>

AlarmBody ==
  <<"Urgent", "!", " ", "Verify", " ", "your", " ", "password", " ", "and",
    " ", "confirm", " ", "your", " ", "account", " ", "details", " ",
    "immediately", " ", "or", " ", "we", " ", "suspend", " ", "and", " ",
    "terminate", " ", "your", " ", "bank", " ", "account", ".", " ", "Act",
    " ", "now", "!", "!", "!", " ", "Congratulations", " ", "winner", "?",
    "?", "?", "?", "?">>

PlainSubject == <<"Meeting", " ", "notes">>

PlainBody ==
  <<"Please", " ", "find", " ", "the", " ", "notes", " ", "attached", ".",
    " ", "Thanks">>

PromoBody ==
  <<"Congratulations", "!", " ", "You", " ", "are", " ", "the", " ",
    "lucky", " ", "winner", " ", "of", " ", "our", " ", "prize", ".", " ",
    "Confirm", " ", "your", " ", "username", " ", "to", " ", "claim", " ",
    "it">>

\* subject and body
Texts ==
  { <<JsUndefined, JsUndefined>>,
    <<JsStr(TestSubject), JsStr(TestBody)>>,
    <<JsStr(AlarmSubject), JsStr(AlarmBody)>>,
    <<JsStr(PlainSubject), JsStr(PlainBody)>>,
    <<JsStr(<<>>), JsStr(PromoBody)>> }

\* subject and body joined as they are written
FullTextAsWritten(subject, body) ==
  (IF Falsy(subject) THEN <<>> ELSE subject.s) \o <<" ">>
    \o (IF Falsy(body) THEN <<>> ELSE body.s)

\* `${emailData.subject || ""} ${emailData.body || ""}`.toLowerCase()
FullText(subject, body) ==
  ToLowerCase((IF Falsy(subject) THEN <<>> ELSE subject.s) \o <<" ">>
                \o (IF Falsy(body) THEN <<>> ELSE body.s))

PatternTable ==
  [text \in {FullText(t[1], t[2]) : t \in Texts} |->
     countSuspiciousPatterns(text)]

\* this.countSuspiciousPatterns(text)
PatternScoresOf(text) ==
  IF text \in DOMAIN PatternTable THEN PatternTable[text]
  ELSE countSuspiciousPatterns(text)

(***************************************************************************)
(* Score fusion (server.js:581-629) and analyzeEmail (server.js:280-326)   *)
(***************************************************************************)
\* the fusion without Math.min around patternScores.total / 10
calculateOverallScoreUncapped(patternScores, sentimentScore, punctuationScore, linkAnalysis, attachmentAnalysis) ==
  FracMin(
    FracAdd(FracMul(Frac(patternScores.total, 10), Frac(3, 10)),
    FracAdd(FracMul(sentimentScore.suspiciousness, Frac(2, 10)),
    FracAdd(FracMul(punctuationScore, Frac(1, 10)),
    FracAdd(FracMul(linkAnalysis.suspicionScore, Frac(2, 10)),
            FracMul(attachmentAnalysis.suspicionScore, Frac(2, 10)))))),
    Frac(1, 1))

calculateOverallScore(patternScores, sentimentScore, punctuationScore, linkAnalysis, attachmentAnalysis) ==
  LET normalizedPatterns == FracMin(Frac(patternScores.total, 10), Frac(1, 1))
      linkScore          == linkAnalysis.suspicionScore
      attachmentScore    == attachmentAnalysis.suspicionScore
      totalScore ==
        FracAdd(FracMul(normalizedPatterns, Frac(3, 10)),
        FracAdd(FracMul(sentimentScore.suspiciousness, Frac(2, 10)),
        FracAdd(FracMul(punctuationScore, Frac(1, 10)),
        FracAdd(FracMul(linkScore, Frac(2, 10)),
                FracMul(attachmentScore, Frac(2, 10))))))
  IN  FracMin(totalScore, Frac(1, 1))

\* the bands of the README (readme.md:81-85) applied to the rounded percent
RiskLevelOfPercent(score) ==
  IF RoundPercent(score) >= 61 THEN "high"
  ELSE IF RoundPercent(score) >= 31 THEN "medium"
  ELSE "low"

determineRiskLevel(score) ==
  IF FracGeq(score, Frac(7, 10)) THEN "high"
  ELSE IF FracGeq(score, Frac(4, 10)) THEN "medium"
  ELSE "low"

\* reasons.push(sentence) when the count is positive
Sentence(n, what) == IF n > 0 THEN <<[what |-> what, count |-> n]>> ELSE <<>>

\* the sentences with authority pushed before threats
generateExplanationAuthorityFirst(patternScores, sentimentScore) ==
  Sentence(patternScores.urgency, "urgency")
    \o Sentence(patternScores.authority, "authority")
    \o Sentence(patternScores.threats, "threats")
    \o Sentence(patternScores.credentials, "credentials")
    \o Sentence(patternScores.rewards, "rewards")
    \o (IF FracGt(sentimentScore.suspiciousness, Frac(3, 10))
        THEN <<[what |-> "negative", count |-> 0]>> ELSE <<>>)

\* the sentences of the explanation, as what each says and its count; no
\* sentence: "No significant suspicious indicators detected."
generateExplanation(patternScores, sentimentScore) ==
  Sentence(patternScores.urgency, "urgency")
    \o Sentence(patternScores.threats, "threats")
    \o Sentence(patternScores.authority, "authority")
    \o Sentence(patternScores.credentials, "credentials")
    \o Sentence(patternScores.rewards, "rewards")
    \o (IF FracGt(sentimentScore.suspiciousness, Frac(3, 10))
        THEN <<[what |-> "negative", count |-> 0]>> ELSE <<>>)

\* x || "" for a string or undefined
OrEmpty(v) == IF Falsy(v) THEN <<>> ELSE v.s

\* emailData: subject, body and htmlBody are strings or undefined,
\* attachments is an array (t = "array") or undefined
EmailData(subject, body, htmlBody, attachments) ==
  [subject |-> subject, body |-> body, htmlBody |-> htmlBody,
   attachments |-> attachments]

JsArray(a) == [t |-> "array", s |-> a]

\* lines 309-325: the object returned.  score is history: the local
\* suspicionScore of line 300, before it is rounded.
Report(patternScores, sentimentScore, linkAnalysis, attachmentAnalysis, punctuationScore, suspicionScore) ==
  [threw |-> FALSE,
   suspicionScore |-> RoundPercent(suspicionScore),
   riskLevel |-> determineRiskLevel(suspicionScore),
   explanation |-> generateExplanation(patternScores, sentimentScore),
   details |-> [patternMatches |-> patternScores,
                sentiment |-> sentimentScore,
                punctuation |-> punctuationScore,
                linkAnalysis |-> linkAnalysis,
                attachmentAnalysis |-> attachmentAnalysis],
   score |-> suspicionScore]

\* lines 300-325 on the five analyses.  threw: the exception of line 488
\* leaves analyzeEmail.
Fuse(patternScores, sentimentScore, linkAnalysis, attachmentAnalysis, punctuationScore) ==
  IF attachmentAnalysis.threw THEN [threw |-> TRUE]
  ELSE Report(patternScores, sentimentScore, linkAnalysis,
              attachmentAnalysis, punctuationScore,
              calculateOverallScore(patternScores, sentimentScore,
                                    punctuationScore, linkAnalysis,
                                    attachmentAnalysis))

\* polarity: what sentiment.analyze(fullText).score is
analyzeEmail(emailData, polarity) ==
  Fuse(PatternScoresOf(FullText(emailData.subject, emailData.body)),
       analyzeSentiment(polarity),
       analyzeLinks(OrEmpty(emailData.htmlBody)),
       analyzeAttachments(emailData.attachments.s),
       checkPunctuation(FullText(emailData.subject, emailData.body)))

(***************************************************************************)
(* The emails analysed                                                     *)
(***************************************************************************)
MaxLinks == 2

MaxAttachments == 2

MaxNegative == 11

MaxPositive == 1

\* the scores sentiment.analyze can report
Polarities == (0 - MaxNegative)..MaxPositive

\* an email without content
NoEmail == EmailData(JsUndefined, JsUndefined, JsUndefined, JsUndefined)

\* testEmail of GET /api/test (server.js:703-707)
TestEmail ==
  EmailData(JsStr(TestSubject), JsStr(TestBody), JsUndefined, JsUndefined)

\* an anchor whose text names another host than its href, and a plain one
LinkSet ==
  { Anchor(<<"http:", "/", "/", "totally-different-domain.ru", "/", "x">>,
           <<"paypal.com", " ", "login">>),
    Anchor(<<"https:", "/", "/", "example.org", "/", "page">>,
           <<" ", "our", " ", "site">>) }

SeqsUpTo(S, n) == UNION {[1..k -> S] : k \in 0..n}

HtmlBodies ==
  {JsUndefined, JsStr(<<TextNode(<<"hello">>)>>)}
    \cup {JsStr(h) : h \in SeqsUpTo(LinkSet, MaxLinks)}

\* a dangerous file, a harmless one named by `filename`, an entry with
\* neither name nor size, and a null entry
AttachmentSet ==
  { Attachment(JsStr(<<"invoice", ".pdf", ".exe">>), JsUndefined, 5000),
    Attachment(JsUndefined, JsStr(<<"notes", ".txt">>), 2048),
    Attachment(JsUndefined, JsUndefined, 0 - 1),
    NullAttachment }

AttachmentLists ==
  {JsUndefined} \cup {JsArray(a) : a \in SeqsUpTo(AttachmentSet, MaxAttachments)}

Emails ==
  { EmailData(t[1], t[2], h, a) :
      t \in Texts, h \in HtmlBodies, a \in AttachmentLists }

\* the attachments analyzeSingleAttachment is called with directly: a name
\* of up to MaxExtensions extensions after an optional stem, and a size in
\* bytes around the two limits (-1: no size)
MaxExtensions == 2

FileStems == {<<>>, <<"invoice">>, <<"report">>}

FileExtensions ==
  {".pdf", ".PDF", ".docx", ".txt", ".jpg", ".exe", ".EXE", ".com", ".js",
   ".zip"}

Filenames ==
  {stem \o exts : stem \in FileStems,
                  exts \in SeqsUpTo(FileExtensions, MaxExtensions)}

FileSizes ==
  {0 - 1, 0, 1, 9999, 10000, 10 * 1024 * 1024, 50 * 1024 * 1024,
   50 * 1024 * 1024 + 1, 60 * 1024 * 1024}

\* the anchor texts isLinkSuspicious is called with directly
LinkTexts ==
  { <<>>,
    <<"paypal.com", " ", "login">>,
    <<"PayPal.com">>,
    <<"click", " ", "here">>,
    <<"Click", " ", "here">>,
    <<"paypal.com", " ", "click", " ", "here">>,
    <<"download", " ", "paypal.com">>,
    <<"our", " ", "site">>,
    <<"example.org">> }

\* the hrefs isLinkSuspicious is called with directly.  "microsoft.com" is
\* written as the three tokens "microsof" "t.co" "m", so that the substring
\* "t.co" of the host is visible to includes(); "go" "." "bit.ly" is a
\* subdomain of bit.ly
LinkUrls ==
  { <<"http:", "/", "/", "totally-different-domain.ru", "/", "x">>,
    <<"https:", "/", "/", "paypal.com", "/", "login">>,
    <<"https:", "/", "/", "microsof", "t.co", "m">>,
    <<"https:", "/", "/", "bit.ly", "/", "x">>,
    <<"https:", "/", "/", "go", ".", "bit.ly", "/", "x">>,
    <<"https:", "/", "/", "example.org", "/", "bit.ly">>,
    <<"https:", "/", "/", "example.org", "/", "file", ".exe">>,
    <<"example.org", "/", "page">>,
    <<"http:", "/", "/", "a", " ", "b">> }

\* the scores determineRiskLevel is called with directly: thousandths
ProbeScores == {Frac(n, 1000) : n \in 0..1000}

(***************************************************************************)
(* OllamaDetector.parseAnalysisResult (detectors/OllamaDetector.js:        *)
(* 246-323).  The text a model answers with is a sequence of tokens: a     *)
(* code fence with or without the word json ("fence json", "fence"),       *)
(* white space, prose, or one complete JSON document.                      *)
(***************************************************************************)
\* a number with its value, an object, a boolean
JsNum(n) == [t |-> "number", s |-> <<>>, n |-> n]

JsObject(o) == [t |-> "object", s |-> <<o>>]

JsTrue == [t |-> "boolean", s |-> <<>>]

\* what JSON.parse returns: null, a primitive or an array (type "other":
\* every property read is undefined), or an object with these properties
JsonValue(type, riskLevel, confidence, suspiciousPatterns, rest) ==
  [type |-> type, riskLevel |-> riskLevel, confidence |-> confidence,
   suspiciousPatterns |-> suspiciousPatterns,
   explanation |-> rest[1], recommendation |-> rest[2],
   detectedIndicators |-> rest[3], severity |-> rest[4]]

NoProperties == <<JsUndefined, JsUndefined, JsUndefined, JsUndefined>>

JsonNull == JsonValue("null", JsUndefined, JsUndefined, JsUndefined, NoProperties)

JsonOther == JsonValue("other", JsUndefined, JsUndefined, JsUndefined, NoProperties)

\* the tokens of a response
Tok(k, v) == [k |-> k, v |-> v]

Fence == Tok("fence", JsonNull)

FenceJson == Tok("fence json", JsonNull)

Ws == Tok("ws", JsonNull)

Prose == Tok("text", JsonNull)

Json(v) == Tok("json", v)

\* jsonString.includes(fence): the fence with json contains the plain one
IncludesFence(s, fence) ==
  \E i \in DOMAIN s :
     s[i].k = fence \/ (fence = "fence" /\ s[i].k = "fence json")

\* String.prototype.trim on tokens
TrimWs(s) ==
  LET keep == {i \in DOMAIN s : s[i].k # "ws"}
  IN  IF keep = {} THEN <<>>
      ELSE SubSeq(s, CHOOSE i \in keep : \A j \in keep : i <= j,
                     CHOOSE i \in keep : \A j \in keep : i >= j)

\* group 1 of s.match(/<open>\s*([\s\S]*?)\s*<fence>/), <<>> when there is
\* no match: what stands between the first opening fence and the next fence
FencedBlock(s, open) ==
  LET opens  == {i \in DOMAIN s : s[i].k = open}
      first  == CHOOSE i \in opens : \A j \in opens : i <= j
      closes == {j \in DOMAIN s : j > first /\ s[j].k \in {"fence", "fence json"}}
      close  == CHOOSE i \in closes : \A j \in closes : i <= j
  IN  IF opens = {} \/ closes = {} THEN <<>>
      ELSE TrimWs(SubSeq(s, first + 1, close - 1))

\* lines 248-265: the text handed to JSON.parse
Unfenced(s, block) == TrimWs(IF block # <<>> THEN block ELSE s)

JsonStringOf(s) ==
  IF IncludesFence(s, "fence json") THEN Unfenced(s, FencedBlock(s, "fence json"))
  ELSE IF IncludesFence(s, "fence") THEN Unfenced(s, FencedBlock(s, "fence"))
  ELSE TrimWs(s)

\* JSON.parse: white space around one document is allowed, nothing else
JsonParse(s) ==
  IF Len(TrimWs(s)) = 1 /\ TrimWs(s)[1].k = "json"
  THEN [ok |-> TRUE, value |-> TrimWs(s)[1].v]
  ELSE [ok |-> FALSE, value |-> JsonNull]

RiskLevels == {"low", "medium", "high"}

\* lines 272-296: validatedAnalysis
ValidatedAnalysis(a, result, emailData) ==
  [threw |-> FALSE,
   riskLevel |-> IF a.riskLevel.t = "string" /\ Len(a.riskLevel.s) = 1
                    /\ a.riskLevel.s[1] \in RiskLevels
                 THEN a.riskLevel.s[1] ELSE "medium",
   confidence |-> IF a.confidence.t = "number"
                  THEN Max(0, Min(100, a.confidence.n)) ELSE 50,
   suspiciousPatterns |-> IF a.suspiciousPatterns.t = "array"
                          THEN a.suspiciousPatterns.s ELSE <<>>,
   explanation |-> IF a.explanation.t = "string" THEN a.explanation
                   ELSE JsStr(<<"Analysis completed">>),
   recommendation |-> IF a.recommendation.t = "string" THEN a.recommendation
                      ELSE JsStr(<<"Exercise caution">>),
   detectedIndicators |-> IF Falsy(a.detectedIndicators)
                          THEN JsObject("{}") ELSE a.detectedIndicators,
   severity |-> IF Falsy(a.severity)
                THEN JsObject("{low: 0, medium: 0, high: 0}") ELSE a.severity,
   error |-> "undefined",
   rawResponse |-> JsUndefined,
   processingTime |-> result.total_duration,
   responseTime |-> result.responseTime,
   model |-> result.model,
   tokensUsed |-> result.eval_count,
   emailLength |-> IF Falsy(emailData.body) THEN 0 ELSE Len(emailData.body.s)]

\* lines 303-318: the fallback analysis of the catch block
FallbackAnalysis(result, message) ==
  [threw |-> FALSE,
   riskLevel |-> "medium",
   confidence |-> 30,
   suspiciousPatterns |-> <<"AI response parsing failed">>,
   explanation |-> JsStr(<<"Could not parse AI analysis response. Manual review recommended.">>),
   recommendation |-> JsStr(<<"Exercise caution and verify sender through alternative means">>),
   detectedIndicators |-> JsObject("{parsing_error: true}"),
   severity |-> JsObject("{low: 0, medium: 1, high: 0}"),
   error |-> message,
   rawResponse |-> result.response,
   processingTime |-> result.total_duration,
   responseTime |-> result.responseTime,
   model |-> result.model,
   tokensUsed |-> "undefined",
   emailLength |-> 0]

\* result.response of the catch block, read from a result that is no object
ParseThrew ==
  [threw |-> TRUE, riskLevel |-> "none", confidence |-> 0,
   suspiciousPatterns |-> <<>>, explanation |-> JsUndefined,
   recommendation |-> JsUndefined, detectedIndicators |-> JsUndefined,
   severity |-> JsUndefined, error |-> "TypeError",
   rawResponse |-> JsUndefined, processingTime |-> 0, responseTime |-> 0,
   model |-> "undefined", tokensUsed |-> "undefined", emailLength |-> 0]

\* a variant that validates whatever non-object JSON.parse returns and never
\* reads the properties of null
AnalysisOrFallbackNullSafe(parsed, result, originalEmailData) ==
  IF ~parsed.ok THEN FallbackAnalysis(result, "SyntaxError")
  ELSE IF originalEmailData.t # "object"
  THEN FallbackAnalysis(result, "TypeError")
  ELSE ValidatedAnalysis(parsed.value, result, originalEmailData.s[1])

\* the try block once JSON.parse has run: reading a property of null, or
\* the body of an emailData that is no object, throws into the catch block
AnalysisOrFallback(parsed, result, originalEmailData) ==
  IF ~parsed.ok THEN FallbackAnalysis(result, "SyntaxError")
  ELSE IF parsed.value.type = "null" \/ originalEmailData.t # "object"
  THEN FallbackAnalysis(result, "TypeError")
  ELSE ValidatedAnalysis(parsed.value, result, originalEmailData.s[1])

\* result and originalEmailData are JavaScript values: an object or undefined
parseAnalysisResult(result, originalEmailData) ==
  IF result.t # "object" THEN ParseThrew
  ELSE IF result.s[1].response.t # "string"
  THEN FallbackAnalysis(result.s[1], "TypeError")
  ELSE AnalysisOrFallback(JsonParse(JsonStringOf(result.s[1].response.s)),
                          result.s[1], originalEmailData)

\* lines 125-133: what callOllama returns
OllamaResult(data, responseTime) ==
  [response |-> IF Falsy(data.response) THEN JsStr(<<>>) ELSE data.response,
   model |-> "llama3.1:8b", total_duration |-> "total_duration",
   eval_count |-> "eval_count", responseTime |-> responseTime]

\* the properties of the JSON objects a model answers with
RiskLevelFields ==
  {JsUndefined, JsStr(<<"low">>), JsStr(<<"medium">>), JsStr(<<"high">>),
   JsStr(<<"critical">>), JsNum(2)}

ConfidenceFields ==
  {JsUndefined, JsNum(0 - 5), JsNum(0), JsNum(85), JsNum(100), JsNum(150),
   JsStr(<<"90">>)}

PatternFields == {JsUndefined, JsArray(<<"urgency">>), JsStr(<<"urgency">>)}

\* explanation, recommendation, detectedIndicators, severity: absent, of the
\* expected type, of another type
RestFields ==
  { NoProperties,
    <<JsStr(<<"phishing">>), JsStr(<<"delete">>), JsObject("{urgency: true}"),
      JsObject("{high: 1}")>>,
    <<JsNum(1), JsNum(1), JsTrue, JsTrue>> }

JsonObjects ==
  { JsonValue("object", r, c, p, rest) :
      r \in RiskLevelFields, c \in ConfidenceFields, p \in PatternFields,
      rest \in RestFields }

\* the verdict of the model used in the responses
GoodVerdict ==
  JsonValue("object", JsStr(<<"high">>), JsNum(85),
            JsArray(<<"urgency">>),
            <<JsStr(<<"phishing">>), JsStr(<<"delete">>),
              JsObject("{urgency: true}"), JsObject("{high: 1}")>>)

\* a document alone, fenced within prose, and behind a fence never closed
PlainResponses(doc) ==
  { <<Json(doc)>>,
    <<Prose, Ws, FenceJson, Ws, Json(doc), Ws, Fence, Ws, Prose>>,
    <<FenceJson, Ws, Json(doc)>> }

\* further ways to wrap a document
FencedResponses(doc) ==
  { <<Ws, Json(doc), Ws>>,
    <<Fence, Json(doc), Fence>>,
    <<FenceJson, Json(doc), FenceJson>>,
    <<FenceJson, Ws, Fence, Json(doc)>>,
    <<Fence, Fence, Json(doc)>>,
    <<Prose, Json(doc)>>,
    <<Json(doc), Json(doc)>>,
    <<Fence, Prose, Fence, Json(doc)>> }

\* responses without a document
BareResponses ==
  { <<>>, <<Ws>>, <<Prose>>, <<FenceJson, Prose, Fence>>, <<Fence, Ws, Fence>> }

\* data.response of the answers parseAnalysisResult is called with: strings,
\* a number, nothing
ModelResponses ==
  {JsStr(s) : s \in UNION {PlainResponses(doc) : doc \in JsonObjects}}
    \cup {JsStr(s) : s \in UNION {PlainResponses(doc) \cup FencedResponses(doc) :
                                    doc \in {GoodVerdict, JsonNull, JsonOther}}}
    \cup {JsStr(s) : s \in BareResponses}
    \cup {JsNum(5), JsUndefined}

\* originalEmailData: an email with a body, one without, no email
ParsedEmails == {JsObject(TestEmail), JsObject(NoEmail), JsUndefined}

\* the arguments parseAnalysisResult is called with
ParseCalls ==
  {<<JsObject(OllamaResult([response |-> r], 1)), JsObject(TestEmail)>> :
      r \in ModelResponses}
    \cup {<<JsObject(OllamaResult([response |-> JsStr(s)], 1)), e>> :
            s \in PlainResponses(GoodVerdict) \cup PlainResponses(JsonNull),
            e \in ParsedEmails}
    \cup {<<JsUndefined, JsObject(TestEmail)>>}

(***************************************************************************)
(* The detector keeps no state: an analysis exists from the call to the    *)
(* delivery of its result.                                                 *)
(***************************************************************************)
\* detector.analyzeEmail(emailData)
AnalyzeEmail ==
  /\ analysis = NoAnalysis
  /\ \E emailData \in Emails, polarity \in Polarities :
       analysis' = [kind |-> "analyzeEmail", emailData |-> emailData,
                    result |-> analyzeEmail(emailData, polarity)]
  /\ UNCHANGED <<indexVars, aiVars, remoteVars, paneVars>>

\* GET /api/test (server.js:700-716)
ApiTest ==
  /\ analysis = NoAnalysis
  /\ \E polarity \in Polarities :
       analysis' = [kind |-> "test", emailData |-> TestEmail,
                    result |-> analyzeEmail(TestEmail, polarity)]
  /\ UNCHANGED <<indexVars, aiVars, remoteVars, paneVars>>

\* detector.determineRiskLevel(score)
DetermineRiskLevel ==
  /\ analysis = NoAnalysis
  /\ \E score \in ProbeScores :
       analysis' = [kind |-> "determineRiskLevel", score |-> score,
                    riskLevel |-> determineRiskLevel(score)]
  /\ UNCHANGED <<indexVars, aiVars, remoteVars, paneVars>>

\* detector.analyzeSingleAttachment(attachment)
AnalyzeSingleAttachment ==
  /\ analysis = NoAnalysis
  /\ \E f \in Filenames, size \in FileSizes :
       analysis' =
         [kind |-> "analyzeSingleAttachment",
          attachment |-> Attachment(JsStr(f), JsUndefined, size),
          result |-> analyzeSingleAttachment(
                       Attachment(JsStr(f), JsUndefined, size))]
  /\ UNCHANGED <<indexVars, aiVars, remoteVars, paneVars>>

\* detector.isLinkSuspicious(link)
IsLinkSuspicious ==
  /\ analysis = NoAnalysis
  /\ \E text \in LinkTexts, url \in LinkUrls :
       analysis' = [kind |-> "isLinkSuspicious",
                    link |-> [url |-> url, text |-> text],
                    result |-> isLinkSuspicious([url |-> url, text |-> text])]
  /\ UNCHANGED <<indexVars, aiVars, remoteVars, paneVars>>

\* ollamaDetector.parseAnalysisResult(result, originalEmailData)
ParseAnalysisResult ==
  /\ analysis = NoAnalysis
  /\ \E c \in ParseCalls :
       analysis' = [kind |-> "parseAnalysisResult", result |-> c[1],
                    originalEmailData |-> c[2],
                    returned |-> parseAnalysisResult(c[1], c[2])]
  /\ UNCHANGED <<indexVars, aiVars, remoteVars, paneVars>>

\* patternScores.total of the direct calls of calculateOverallScore: none,
\* some, and the values around the 10 matches that fill the channel
ProbeTotals == {0, 4, 9, 10, 11, 25}

\* the sub-scores of the direct calls, in tenths
ProbeTenths == {0, 5, 10}

\* detector.calculateOverallScore(patternScores, sentimentScore,
\* punctuationScore, linkAnalysis, attachmentAnalysis)
CalculateOverallScore ==
  /\ analysis = NoAnalysis
  /\ \E total \in ProbeTotals, s, p, l, a \in ProbeTenths :
       analysis' =
         [kind |-> "calculateOverallScore", total |-> total,
          tenths |-> [sentiment |-> s, punctuation |-> p, links |-> l,
                      attachments |-> a],
          score |-> calculateOverallScore(
                      [total |-> total], [suspiciousness |-> Frac(s, 10)],
                      Frac(p, 10), [suspicionScore |-> Frac(l, 10)],
                      [suspicionScore |-> Frac(a, 10)])]
  /\ UNCHANGED <<indexVars, aiVars, remoteVars, paneVars>>

\* the texts of the direct calls of checkPunctuation: words in capitals
\* and others, separated by spaces, tabs or line feeds, followed by 3 or 4
\* exclamation marks and 3 or 4 question marks
RECURSIVE Joined(_, _)
Joined(words, sep) ==
  IF Len(words) <= 1 THEN words
  ELSE <<Head(words), sep>> \o Joined(Tail(words), sep)

Repeated(c, n) == [i \in 1..n |-> c]

PunctuationTexts ==
  { Joined(words, sep) \o <<" ">> \o Repeated("!", e) \o <<" ">>
      \o Repeated("?", q) :
      words \in { <<"URGENT", "ACTION">>,
                  <<"URGENT", "ACTION", "REQUIRED">>,
                  <<"URGENT", "ACTION", "A">>,
                  <<"URGENT", "ACTION", "notes">>,
                  <<"URGENT", "ACTION", "REQUIRED", "INVOICE">> },
      sep \in {" ", "\t", "\n"}, e \in {3, 4}, q \in {3, 4} }

\* detector.checkPunctuation(text)
CheckPunctuation ==
  /\ analysis = NoAnalysis
  /\ \E text \in PunctuationTexts :
       analysis' = [kind |-> "checkPunctuation", text |-> text,
                    score |-> checkPunctuation(text)]
  /\ UNCHANGED <<indexVars, aiVars, remoteVars, paneVars>>

\* the counts of a category in the direct calls of generateExplanation
ProbeCounts == {0, 1, 3}

\* sentimentScore.suspiciousness in these calls, in tenths: around 0.3
ProbeSuspiciousness == {0, 3, 4, 10}

\* detector.generateExplanation(patternScores, sentimentScore)
GenerateExplanation ==
  /\ analysis = NoAnalysis
  /\ \E u, t, a, c, r \in ProbeCounts, s \in ProbeSuspiciousness :
       analysis' =
         [kind |-> "generateExplanation",
          patternScores |-> [urgency |-> u, threats |-> t, authority |-> a,
                             credentials |-> c, rewards |-> r,
                             total |-> u + t + a + c + r],
          tenths |-> s,
          explanation |->
            generateExplanation(
              [urgency |-> u, threats |-> t, authority |-> a,
               credentials |-> c, rewards |-> r, total |-> u + t + a + c + r],
              [score |-> 0 - s, suspiciousness |-> Frac(s, 10)])]
  /\ UNCHANGED <<indexVars, aiVars, remoteVars, paneVars>>

\* the texts of the direct calls of countSuspiciousPatterns: empty ones,
\* a phrase of two categories, one word in three spellings, words next to
\* punctuation, longer words that hold a phrase, phrases of two words, two
\* spaces inside a phrase, a mixed text, and one word twelve times
PatternTexts ==
  { <<>>,
    <<" ">>,
    <<"bank", " ", "account">>,
    <<"bank", " ", "account", " ", "details">>,
    <<"URGENT", " ", "Urgent", " ", "urgent">>,
    <<"urgent", "!", "urgent", "?">>,
    <<"suspended", " ", "urgently", " ", "banking">>,
    <<"right", " ", "away", " ", "right", " ", "away", " ", "act", " ",
      "now">>,
    <<"right", " ", " ", "away">>,
    <<"Verify", " ", "Your", " ", "Account", " ", "details", ".", " ",
      "Congratulations", " ", "winner", " ", "of", " ", "the", " ",
      "lottery", " ", "prize", "!", " ", "Act", " ", "now", " ", "or", " ",
      "we", " ", "suspend", " ", "it">>,
    Joined(Repeated("urgent", 12), " ") }

\* detector.countSuspiciousPatterns(text)
CountSuspiciousPatterns ==
  /\ analysis = NoAnalysis
  /\ \E text \in PatternTexts :
       analysis' = [kind |-> "countSuspiciousPatterns", text |-> text,
                    scores |-> countSuspiciousPatterns(text)]
  /\ UNCHANGED <<indexVars, aiVars, remoteVars, paneVars>>

\* the caller has the result
Deliver ==
  /\ analysis # NoAnalysis
  /\ analysis' = NoAnalysis
  /\ UNCHANGED <<indexVars, aiVars, remoteVars, paneVars>>

InitEmail ==
  /\ phishUrlIndex = EmptyMap
  /\ localDbStats = [loaded |-> FALSE, records |-> 0, indexSize |-> 0,
                     lastLoaded |-> "null"]
  /\ running = "none"
  /\ loadArr = <<>>
  /\ loadLen = 0
  /\ waiting = "none"
  /\ phishResp = NoResponse
  /\ analysis = NoAnalysis
  /\ DetectorNew
  /\ RemoteIdle
  /\ PaneLoaded

NextEmail ==
  \/ AnalyzeEmail
  \/ ApiTest
  \/ DetermineRiskLevel
  \/ AnalyzeSingleAttachment
  \/ IsLinkSuspicious
  \/ ParseAnalysisResult
  \/ CalculateOverallScore
  \/ CheckPunctuation
  \/ GenerateExplanation
  \/ CountSuspiciousPatterns
  \/ Deliver

SpecEmail == InitEmail /\ [][NextEmail]_vars


(***************************************************************************)
(* The Ollama detector at work (detectors/OllamaDetector.js:26-183) and    *)
(* the two analysis endpoints of server_clean.js (147-246).  A call that   *)
(* awaits a fetch is an element of the bag `calls`; what a settled call    *)
(* or a handled request gives its caller stands in `analysis` until it is  *)
(* delivered.                                                              *)
(***************************************************************************)
\* the calls that can wait for a response at once, and the generate
\* requests counted by stats.totalRequests
MaxCalls == 2

MaxRequests == 2

\* this.timeout = options.timeout || parseInt(process.env.OLLAMA_TIMEOUT)
\*                || 30000; 0 stands for a falsy value (undefined, 0, NaN)
OllamaTimeout(optionsTimeout, envTimeout) ==
  IF optionsTimeout # 0 THEN optionsTimeout
  ELSE IF envTimeout # 0 THEN envTimeout
  ELSE DefaultTimeout

\* options.timeout of the detectors constructed
TimeoutOptions == {0, 10}

\* how long a generate request takes, in milliseconds: less than the
\* timeout, exactly the timeout, more
Durations(ms) == {ms - 1, ms, ms + 1}

\* the emails handed to the Ollama detector and to the two endpoints
NullEntryEmail ==
  EmailData(JsStr(AlarmSubject), JsStr(AlarmBody), JsUndefined,
            JsArray(<<NullAttachment>>))

AiEmails == {TestEmail, NullEntryEmail}

ApiBodies == AiEmails \cup {NoEmail}

\* sentiment.analyze(...).score for the emails of the endpoints
ApiPolarities == {0 - MaxNegative, 0}

\* formatEmailForAnalysis (lines 188-224) reads att.name of every entry of
\* attachments: a null entry throws
FormatThrows(emailData) ==
  /\ emailData.attachments.t = "array"
  /\ \E i \in DOMAIN emailData.attachments.s :
       emailData.attachments.s[i].isNull

\* GET /api/tags as checkHealth sees it: the model is listed, it is not,
\* a status that is not OK, no connection, no answer within 5000 ms
HealthOutcomes == {"model", "no model", "http error", "failed", "timeout"}

HealthError(outcome) ==
  CASE outcome = "model"      -> "null"
    [] outcome = "no model"   -> "Model 'llama3.1:8b' not found. Available: none"
    [] outcome = "http error" -> "HTTP 500: Internal Server Error"
    [] outcome = "failed"     -> "fetch failed"
    [] outcome = "timeout"    -> "The operation was aborted due to timeout"

\* checkHealth, lines 45-64
StatsAfterHealth(st, outcome) ==
  [st EXCEPT !.available = outcome \in {"model", "no model"},
             !.lastChecked = "checked",
             !.error = HealthError(outcome)]

\* callOllama, line 73: is the health check awaited first?
Begin(st) ==
  IF ~st.available \/ st.lastChecked = "null" THEN "health" ELSE "generate"

\* line 98: this.stats.totalRequests++
StatsAtSend(st) == [st EXCEPT !.totalRequests = @ + 1]

\* lines 116-120, with the average as an exact fraction
StatsAfterSuccess(st, responseTime) ==
  [st EXCEPT
     !.successfulRequests = @ + 1,
     !.averageResponseTime =
        FracMul(FracAdd(FracMul(@, Frac(st.successfulRequests, 1)),
                        Frac(responseTime, 1)),
                Frac(1, st.successfulRequests + 1))]

\* data.response of an OK answer of POST /api/generate
AiResponses ==
  { JsStr(<<Json(GoodVerdict)>>),
    JsStr(<<FenceJson, Ws, Json(GoodVerdict), Ws, Fence>>),
    JsStr(<<Prose>>),
    JsUndefined }

\* POST /api/generate as callOllama sees it when the timer does not fire
GenerateOutcomes ==
  {[kind |-> "ok", response |-> r] : r \in AiResponses}
    \cup {[kind |-> k, response |-> JsUndefined] :
            k \in {"http error", "failed", "bad body"}}

\* a fetch that nothing aborts
SettledUntimed(outcome, timerFired) == outcome

\* AbortSignal.timeout(this.timeout): when the timer fires first the fetch
\* rejects, whatever the server would have answered
Settled(outcome, timerFired) ==
  IF timerFired THEN [kind |-> "timeout", response |-> JsUndefined]
  ELSE outcome

GenerateError(kind) ==
  CASE kind = "timeout"    -> "The operation was aborted due to timeout"
    [] kind = "http error" -> "Ollama API error: 500 Internal Server Error"
    [] kind = "failed"     -> "fetch failed"
    [] kind = "bad body"   -> "Unexpected token < in JSON at position 0"
    [] kind = "ok"         -> "null"

\* a call that awaits a fetch.  arrival is history: stats.available when
\* the call was made
Call(pc, via, emailData, arrival) ==
  [pc |-> pc, via |-> via, emailData |-> emailData, arrival |-> arrival]

\* no verdict was returned
NoVerdict == [ParseThrew EXCEPT !.threw = FALSE, !.error = "no verdict"]

\* history of a settled call: the generate request it sent, if any
NotSent ==
  [sent |-> FALSE, kind |-> "none", duration |-> 0, timerFired |-> FALSE,
   timeout |-> 0]

Sent(outcome, duration, timerFired, ms) ==
  [sent |-> TRUE, kind |-> outcome.kind, duration |-> duration,
   timerFired |-> timerFired, timeout |-> ms]

History(call, generate, st) ==
  [arrival |-> call.arrival, generate |-> generate,
   successfulBefore |-> st.successfulRequests]

\* email_info of both endpoints (body_length counts tokens)
EmailInfo(emailData) ==
  [subject |-> IF Falsy(emailData.subject) THEN JsStr(<<"No subject">>)
               ELSE emailData.subject,
   sender |-> "Unknown",
   body_length |-> IF Falsy(emailData.body) THEN 0 ELSE Len(emailData.body.s)]

\* analyzeEmail settles for its caller (lines 177-182)
DirectSettled(call, ok, error, verdict, hist) ==
  [kind |-> "OllamaDetector.analyzeEmail", emailData |-> call.emailData,
   settled |-> IF ok THEN "resolved" ELSE "rejected",
   error |-> error, result |-> verdict, hist |-> hist]

\* POST /api/analyze-with-ai after the await (server_clean.js:219-245)
ApiSettled(call, ok, error, verdict, traditional, hist) ==
  [kind |-> "POST /api/analyze-with-ai", emailData |-> call.emailData,
   status |-> IF ok /\ ~traditional.threw THEN 200 ELSE 500,
   body |-> IF ok /\ ~traditional.threw
            THEN [status |-> "success", ai_analysis |-> verdict,
                  traditional_analysis |-> traditional,
                  email_info |-> EmailInfo(call.emailData)]
            ELSE [status |-> "error", message |-> "AI analysis failed",
                  error |-> IF ok THEN <<"TypeError">> ELSE error],
   hist |-> hist]

\* GET /api/test-ai after the await (server_clean.js:281-289): runTest
\* catches what analyzeEmail throws and returns without analysis
TestAiSettled(call, ok, verdict, traditional, hist) ==
  [kind |-> "GET /api/test-ai", emailData |-> call.emailData,
   status |-> 200,
   body |-> [status |-> "test",
             ai_analysis |-> IF ok THEN verdict ELSE NoVerdict,
             traditional_analysis |-> traditional],
   hist |-> hist]

AiSettled(call, ok, error, verdict, polarity, hist) ==
  IF call.via = "direct" THEN DirectSettled(call, ok, error, verdict, hist)
  ELSE IF call.via = "test"
  THEN TestAiSettled(call, ok, verdict,
                     analyzeEmail(call.emailData, polarity), hist)
  ELSE ApiSettled(call, ok, error, verdict,
                  IF ok THEN analyzeEmail(call.emailData, polarity)
                  ELSE [threw |-> FALSE], hist)

\* the calls of analyzeEmail that still await the health check
AwaitingHealth(cs) ==
  BagCardinality([c \in {d \in BagToSet(cs) : d.pc = "health"
                                               /\ d.via # "check"} |-> cs[c]])

MayCall ==
  /\ BagCardinality(calls) < MaxCalls
  /\ stats.totalRequests + AwaitingHealth(calls) < MaxRequests

\* analyzeEmail up to the first await: the call joins those that wait
CallBegins(via, emailData) ==
  /\ calls' = calls (+) SetToBag({Call(Begin(stats), via, emailData,
                                        stats.available)})
  /\ stats' = IF Begin(stats) = "generate" THEN StatsAtSend(stats) ELSE stats
  /\ UNCHANGED analysis

\* ollamaDetector.analyzeEmail(emailData), called directly
OllamaAnalyzeEmail ==
  /\ analysis = NoAnalysis
  /\ MayCall
  /\ \E emailData \in AiEmails :
       IF FormatThrows(emailData)
       THEN /\ analysis' =
                 DirectSettled(Call("format", "direct", emailData,
                                    stats.available),
                               FALSE, <<"TypeError">>, NoVerdict,
                               [arrival |-> stats.available,
                                generate |-> NotSent,
                                successfulBefore |-> stats.successfulRequests])
            /\ UNCHANGED <<stats, calls>>
       ELSE CallBegins("direct", emailData)
  /\ UNCHANGED <<timeout, indexVars, remoteVars, paneVars>>

\* ollamaDetector.checkHealth() on its own (server_clean.js:423)
CheckHealth ==
  /\ analysis = NoAnalysis
  /\ BagCardinality(calls) < MaxCalls
  /\ calls' = calls (+) SetToBag({Call("health", "check", NoEmail,
                                        stats.available)})
  /\ UNCHANGED <<analysis, stats, timeout, indexVars, remoteVars, paneVars>>

\* the answer to /api/tags arrives: checkHealth sets the stats and returns;
\* callOllama goes on with lines 78-98
HealthResponds ==
  /\ analysis = NoAnalysis
  /\ \E call \in BagToSet(calls), outcome \in HealthOutcomes :
       /\ call.pc = "health"
       /\ IF call.via = "check"
          THEN /\ stats' = StatsAfterHealth(stats, outcome)
               /\ calls' = calls (-) SetToBag({call})
               /\ analysis' = [kind |-> "checkHealth",
                               returned |-> outcome \in {"model", "no model"}]
          ELSE IF ~StatsAfterHealth(stats, outcome).available
          THEN /\ stats' = StatsAfterHealth(stats, outcome)
               /\ calls' = calls (-) SetToBag({call})
               /\ analysis' =
                    AiSettled(call, FALSE,
                              <<"Email analysis failed: ",
                                "Ollama is not available: ",
                                HealthError(outcome)>>,
                              NoVerdict, 0, History(call, NotSent, stats))
          ELSE /\ stats' = StatsAtSend(StatsAfterHealth(stats, outcome))
               /\ calls' = (calls (-) SetToBag({call}))
                             (+) SetToBag({[call EXCEPT !.pc = "generate"]})
               /\ UNCHANGED analysis
  /\ UNCHANGED <<timeout, indexVars, remoteVars, paneVars>>

\* the generate request of a call settles: lines 108-138 of callOllama, then
\* parseAnalysisResult or the catch of analyzeEmail, then the rest of the
\* endpoint's handler
GenerateSettles(call, settled, duration, polarity, hist) ==
  /\ calls' = calls (-) SetToBag({call})
  /\ stats' = IF settled.kind = "ok" THEN StatsAfterSuccess(stats, duration)
              ELSE stats
  /\ analysis' =
       AiSettled(call, settled.kind = "ok",
                 <<"Email analysis failed: ", GenerateError(settled.kind)>>,
                 IF settled.kind = "ok"
                 THEN parseAnalysisResult(
                        JsObject(OllamaResult(settled, duration)),
                        JsObject(call.emailData))
                 ELSE NoVerdict,
                 polarity, hist)

GenerateResponds ==
  /\ analysis = NoAnalysis
  /\ \E call \in BagToSet(calls), outcome \in GenerateOutcomes,
        duration \in Durations(timeout), timerFired \in BOOLEAN,
        polarity \in ApiPolarities :
       /\ call.pc = "generate"
       /\ duration < timeout => ~timerFired
       /\ duration > timeout => timerFired
       /\ GenerateSettles(call, Settled(outcome, timerFired), duration,
                          polarity,
                          History(call, Sent(outcome, duration, timerFired,
                                             timeout), stats))
  /\ UNCHANGED <<timeout, indexVars, remoteVars, paneVars>>

\* a handler without the test of stats.available
NeverUnavailable(st) == FALSE

\* server_clean.js:208-216: is the request turned away?
Unavailable(st) == ~st.available

\* an answer sent before any await
ApiAnswer(kind, emailData, status, body, st) ==
  [kind |-> kind, emailData |-> emailData, status |-> status, body |-> body,
   hist |-> [arrival |-> st.available, generate |-> NotSent,
             successfulBefore |-> st.successfulRequests]]

NoContent ==
  [error |-> "Email subject or body required",
   message |-> "Please provide email content to analyze"]

\* POST /api/analyze-with-ai up to the await (server_clean.js:193-219)
AnalyzeWithAi ==
  /\ analysis = NoAnalysis
  /\ \E emailData \in ApiBodies :
       IF Falsy(emailData.subject) /\ Falsy(emailData.body)
       THEN /\ analysis' = ApiAnswer("POST /api/analyze-with-ai", emailData,
                                     400, NoContent, stats)
            /\ UNCHANGED <<stats, calls>>
       ELSE IF Unavailable(stats)
       THEN /\ analysis' =
                 ApiAnswer("POST /api/analyze-with-ai", emailData, 503,
                           [status |-> "error",
                            message |-> "Ollama AI is not available",
                            error |-> stats.error,
                            fallback |-> "Use /api/analyze-suspiciousness for heuristic analysis"],
                           stats)
            /\ UNCHANGED <<stats, calls>>
       ELSE IF FormatThrows(emailData)
       THEN /\ analysis' =
                 ApiAnswer("POST /api/analyze-with-ai", emailData, 500,
                           [status |-> "error",
                            message |-> "AI analysis failed",
                            error |-> <<"TypeError">>],
                           stats)
            /\ UNCHANGED <<stats, calls>>
       ELSE /\ MayCall
            /\ CallBegins("api", emailData)
  /\ UNCHANGED <<timeout, indexVars, remoteVars, paneVars>>

\* POST /api/analyze-suspiciousness (server_clean.js:147-190)
HeuristicAnswer(emailData, result, st) ==
  IF result.threw
  THEN ApiAnswer("POST /api/analyze-suspiciousness", emailData, 500,
                 [status |-> "error", message |-> "Analysis failed",
                  error |-> <<"TypeError">>], st)
  ELSE ApiAnswer("POST /api/analyze-suspiciousness", emailData, 200,
                 [status |-> "success", analysis |-> result,
                  email_info |-> EmailInfo(emailData)], st)

AnalyzeSuspiciousness ==
  /\ analysis = NoAnalysis
  /\ \E emailData \in ApiBodies, polarity \in ApiPolarities :
       analysis' =
         IF Falsy(emailData.subject) /\ Falsy(emailData.body)
         THEN ApiAnswer("POST /api/analyze-suspiciousness", emailData, 400,
                        NoContent, stats)
         ELSE HeuristicAnswer(emailData, analyzeEmail(emailData, polarity),
                              stats)
  /\ UNCHANGED <<aiVars, indexVars, remoteVars, paneVars>>

\* testEmail of runTest (OllamaDetector.js:342-347): the subject, and of
\* the body the sentences that ask and press
OllamaTestEmail ==
  EmailData(JsStr(<<"URGENT", ":", " ", "Your", " ", "account", " ", "has",
                    " ", "been", " ", "compromised", "!">>),
            JsStr(<<"Your", " ", "account", " ", "will", " ", "be", " ",
                    "suspended", " ", "unless", " ", "you", " ", "verify", " ",
                    "your", " ", "identity", " ", "immediately", ".", " ",
                    "Act", " ", "now", "!">>),
            JsUndefined, JsUndefined)

\* a handler of /api/test-ai without the test of stats.available
TestAiUnchecked(st) == FALSE

\* server_clean.js:271-278: is the request turned away?
TestAiUnavailable(st) == ~st.available

\* GET /api/test-ai up to the await (server_clean.js:268-281)
TestAi ==
  /\ analysis = NoAnalysis
  /\ IF TestAiUnavailable(stats)
     THEN /\ analysis' =
               ApiAnswer("GET /api/test-ai", OllamaTestEmail, 503,
                         [status |-> "error",
                          message |-> "Ollama AI is not available",
                          error |-> stats.error],
                         stats)
          /\ UNCHANGED <<stats, calls>>
     ELSE /\ MayCall
          /\ CallBegins("test", OllamaTestEmail)
  /\ UNCHANGED <<timeout, indexVars, remoteVars, paneVars>>

InitOllama ==
  /\ phishUrlIndex = EmptyMap
  /\ localDbStats = [loaded |-> FALSE, records |-> 0, indexSize |-> 0,
                     lastLoaded |-> "null"]
  /\ running = "none"
  /\ loadArr = <<>>
  /\ loadLen = 0
  /\ waiting = "none"
  /\ phishResp = NoResponse
  /\ analysis = NoAnalysis
  /\ stats = NewStats
  /\ \E optionsTimeout \in TimeoutOptions :
       timeout = OllamaTimeout(optionsTimeout, 0)
  /\ calls = EmptyBag
  /\ RemoteIdle
  /\ PaneLoaded

NextOllama ==
  \/ OllamaAnalyzeEmail
  \/ CheckHealth
  \/ HealthResponds
  \/ GenerateResponds
  \/ AnalyzeWithAi
  \/ AnalyzeSuspiciousness
  \/ Deliver

SpecOllama == InitOllama /\ [][NextOllama]_vars

(***************************************************************************)
(* The server of server_clean.js and its detector.  The listen callback    *)
(* awaits ollamaDetector.checkHealth() once (423, 444) and nothing else    *)
(* calls it; requests are handled from then on, the first ones while that  *)
(* check still waits for its answer.  The detector is built without        *)
(* options, its timeout comes from the environment or is the default.      *)
(***************************************************************************)
\* OLLAMA_TIMEOUT of the environment: not set, or 10 ms
EnvTimeouts == {0, 10}

InitServer ==
  /\ phishUrlIndex = EmptyMap
  /\ localDbStats = [loaded |-> FALSE, records |-> 0, indexSize |-> 0,
                     lastLoaded |-> "null"]
  /\ running = "none"
  /\ loadArr = <<>>
  /\ loadLen = 0
  /\ waiting = "none"
  /\ phishResp = NoResponse
  /\ analysis = NoAnalysis
  /\ stats = NewStats
  /\ \E envTimeout \in EnvTimeouts : timeout = OllamaTimeout(0, envTimeout)
  /\ calls = SetToBag({Call("health", "check", NoEmail, FALSE)})
  /\ RemoteIdle
  /\ PaneLoaded

NextServer ==
  \/ HealthResponds
  \/ GenerateResponds
  \/ AnalyzeWithAi
  \/ TestAi
  \/ AnalyzeSuspiciousness
  \/ Deliver

SpecServer == InitServer /\ [][NextServer]_vars

(***************************************************************************)
(* POST /phishlink with remote lookups (server.js:1334-1426) and its two   *)
(* lookups checkWithPhishTank (1502-1563) and checkWithURLHaus (1432-1477).*)
(* `remote` holds the request while its lookups are under way: the urls    *)
(* and, by position, the state of the PhishTank and the URLHaus lookup.    *)
(***************************************************************************)
PageUrl == <<"https:", "/", "/", "example.org", "/", "page">>

ShortUrl == <<"https:", "/", "/", "bit.ly", "/", "x">>

\* req.body.links of the requests: no array, an empty one, blank entries
\* only, one url, two urls, a url twice (once padded) after another, and
\* urls among entries that are no strings or blank
Submissions ==
  { JsUndefined,
    JsArray(<<>>),
    JsArray(<<JsStr(<<" ">>), JsNumber>>),
    JsArray(<<JsStr(PageUrl)>>),
    JsArray(<<JsStr(PageUrl), JsStr(ShortUrl)>>),
    JsArray(<<JsStr(ShortUrl), JsStr(<<" ">> \o PageUrl), JsStr(PageUrl)>>),
    JsArray(<<JsUndefined, JsStr(PageUrl), JsStr(<<>>),
              JsStr(PageUrl \o <<" ">>), JsStr(ShortUrl)>>) }

\* Array.isArray(req.body?.links) ? req.body.links : []
LinksOf(body) == IF body.t = "array" THEN body.s ELSE <<>>

\* [...new Set(links.map(trim or "").filter(Boolean))]
RECURSIVE Normalized(_)
Normalized(links) ==
  IF links = <<>> THEN <<>>
  ELSE LET l    == links[Len(links)]
           rest == Normalized(SubSeq(links, 1, Len(links) - 1))
       IN  IF l.t = "string" /\ Trim(l.s) # <<>>
           THEN SetAdd(rest, Trim(l.s)) ELSE rest

\* what PhishTank says of a url (tryParsePhishTankJson gives this object)
NotInDb == [in_database |-> FALSE, valid |-> FALSE, verified |-> FALSE]

KnownPhish == [in_database |-> TRUE, valid |-> TRUE, verified |-> TRUE]

Unverified == [in_database |-> TRUE, valid |-> FALSE, verified |-> FALSE]

\* the answer to one request to PhishTank: a status and a body that is one
\* of the objects above ("json"), or no JSON; or a socket error
PhishTankAnswers ==
  {[kind |-> "answer", status |-> 200, json |-> TRUE, r |-> r] :
      r \in {NotInDb, KnownPhish, Unverified}}
    \cup {[kind |-> "answer", status |-> 403, json |-> FALSE, r |-> NotInDb],
          [kind |-> "answer", status |-> 509, json |-> TRUE, r |-> NotInDb],
          [kind |-> "error", status |-> 0, json |-> FALSE, r |-> NotInDb]}

NoUrlHaus == [present |-> FALSE, listed |-> FALSE, error |-> "none"]

\* an entry of results; httpStatus 0 and error "none" stand for null and
\* for no error property
ResultEntry(url, inDatabase, isPhish, verified, error, httpStatus) ==
  [url |-> url, inDatabase |-> inDatabase, isPhish |-> isPhish,
   verified |-> verified, error |-> error, httpStatus |-> httpStatus,
   urlhaus |-> NoUrlHaus]

\* normalizePhishTankResult (1574-1589)
normalizePhishTankResult(urlToCheck, r, httpStatus) ==
  ResultEntry(urlToCheck, r.in_database,
        IF r.in_database /\ (r.valid \/ r.verified) THEN "true" ELSE "false",
        r.verified, "none", httpStatus)

\* lines 1549-1562: neither attempt gave status 200 with a JSON body
PhishTankFailure(urlToCheck, getRes) ==
  ResultEntry(urlToCheck, FALSE, "null", FALSE,
        IF getRes.json THEN "Unknown error" ELSE "Invalid JSON from PhishTank",
        getRes.status)

\* a lookup under way or settled
Lookup(state, value, reason) ==
  [state |-> state, value |-> value, reason |-> reason]

NoEntry == ResultEntry(<<>>, FALSE, "null", FALSE, "none", 0)

\* checkWithPhishTank after its first and after its second request
AfterPost(urlToCheck, postRes) ==
  IF postRes.kind = "error" THEN Lookup("rejected", NoEntry, "socket hang up")
  ELSE IF postRes.status = 200 /\ postRes.json
  THEN Lookup("fulfilled",
              normalizePhishTankResult(urlToCheck, postRes.r, postRes.status),
              "none")
  ELSE Lookup("get", NoEntry, "none")

AfterGet(urlToCheck, getRes) ==
  IF getRes.kind = "error" THEN Lookup("rejected", NoEntry, "socket hang up")
  ELSE IF getRes.status = 200 /\ getRes.json
  THEN Lookup("fulfilled",
              normalizePhishTankResult(urlToCheck, getRes.r, getRes.status),
              "none")
  ELSE Lookup("fulfilled", PhishTankFailure(urlToCheck, getRes), "none")

\* the answer of URLHaus: listed, not listed, no JSON, a socket error
UrlHausAnswers == {"ok", "no_results", "html", "error"}

\* checkWithURLHaus (1432-1477) once its request has settled
AfterUrlHaus(answer) ==
  CASE answer = "ok" ->
         Lookup("fulfilled", [present |-> TRUE, listed |-> TRUE,
                              error |-> "none"], "none")
    [] answer = "no_results" ->
         Lookup("fulfilled", [present |-> TRUE, listed |-> FALSE,
                              error |-> "none"], "none")
    [] answer = "html" ->
         Lookup("fulfilled", [present |-> TRUE, listed |-> FALSE,
                              error |-> "Invalid JSON from URLHaus"], "none")
    [] answer = "error" -> Lookup("rejected", NoUrlHaus, "socket hang up")

\* lines 1357-1369: an entry per settled PhishTank lookup
ParsedEntry(url, r) ==
  IF r.state = "fulfilled" THEN r.value
  ELSE ResultEntry(url, FALSE, "null", FALSE, r.reason, 0)

\* line 1374
NeedsFallback(r) ==
  r.error # "none" \/ r.inDatabase = FALSE \/ r.isPhish # "true"

\* lines 1380-1389: the URLHaus result attached to an entry
WithUrlHaus(r, uh) ==
  IF uh.state = "fulfilled" /\ uh.value.present
  THEN [r EXCEPT !.urlhaus = uh.value]
  ELSE IF uh.state = "rejected"
  THEN [r EXCEPT !.urlhaus = [present |-> TRUE, listed |-> FALSE,
                              error |-> uh.reason]]
  ELSE r

RECURSIVE ParsedEntries(_, _, _)
ParsedEntries(urls, pt, uh) ==
  IF urls = <<>> THEN <<>>
  ELSE <<WithUrlHaus(ParsedEntry(Head(urls), Head(pt)), Head(uh))>>
         \o ParsedEntries(Tail(urls), Tail(pt), Tail(uh))

\* await Promise.all(...) throws when one of the promises is rejected
PromiseAllThrows(lookups) ==
  \E i \in DOMAIN lookups : lookups[i].state = "rejected"

\* await Promise.allSettled(...) never throws
AllSettledThrows(lookups) == FALSE

Pending(lookups) ==
  {i \in DOMAIN lookups : lookups[i].state \in {"post", "get", "pending"}}

\* res.json / res.status(...).json of the handler.  links, pt and uh are
\* history: what was submitted and how each lookup settled
RemoteAnswer(status, body, links, pt, uh) ==
  [kind |-> "POST /phishlink (remote)", status |-> status, body |-> body,
   links |-> links, pt |-> pt, uh |-> uh]

\* lines 1391 and 1417-1422
Success(results, links, pt, uh) ==
  RemoteAnswer(200,
               [status |-> "success", total |-> Len(results),
                detectedCount |->
                  Cardinality({i \in DOMAIN results :
                                 \/ results[i].isPhish = "true"
                                 \/ results[i].urlhaus.listed}),
                results |-> results],
               links, pt, uh)

ServerError(links, pt, uh) ==
  RemoteAnswer(500, [status |-> "error", message |-> "socket hang up"],
               links, pt, uh)

\* the request arrives: lines 1335-1355, up to the first await.  Without
\* urls both awaits are over at once
RemotePhishlink ==
  /\ analysis = NoAnalysis
  /\ remote = NoRemote
  /\ \E body \in Submissions :
       IF LinksOf(body) = <<>>
       THEN /\ analysis' =
                 RemoteAnswer(400,
                              [status |-> "error",
                               message |-> "No links provided. Send { links: string[] }"],
                              LinksOf(body), <<>>, <<>>)
            /\ UNCHANGED remote
       ELSE IF Normalized(LinksOf(body)) = <<>>
       THEN /\ analysis' = Success(<<>>, LinksOf(body), <<>>, <<>>)
            /\ UNCHANGED remote
       ELSE /\ remote' =
                 [pc |-> "phishtank", links |-> LinksOf(body),
                  normalized |-> Normalized(LinksOf(body)),
                  pt |-> [i \in DOMAIN Normalized(LinksOf(body)) |->
                            Lookup("post", NoEntry, "none")],
                  uh |-> <<>>]
            /\ UNCHANGED analysis
  /\ UNCHANGED <<indexVars, aiVars, paneVars>>

\* PhishTank answers a request of one lookup, or the request fails
PhishTankResponds ==
  /\ analysis = NoAnalysis
  /\ remote.pc = "phishtank"
  /\ \E i \in Pending(remote.pt), res \in PhishTankAnswers :
       remote' =
         [remote EXCEPT !.pt[i] =
            IF remote.pt[i].state = "post"
            THEN AfterPost(remote.normalized[i], res)
            ELSE AfterGet(remote.normalized[i], res)]
  /\ UNCHANGED <<analysis, indexVars, aiVars, paneVars>>

\* every PhishTank lookup has settled: lines 1357-1378, the URLHaus lookups
\* start for the entries that need one
PhishTankSettled ==
  /\ analysis = NoAnalysis
  /\ remote.pc = "phishtank"
  /\ Pending(remote.pt) = {}
  /\ IF AllSettledThrows(remote.pt)
     THEN /\ analysis' = ServerError(remote.links, remote.pt, <<>>)
          /\ remote' = NoRemote
     ELSE /\ remote' =
               [remote EXCEPT
                  !.pc = "urlhaus",
                  !.uh = [i \in DOMAIN remote.pt |->
                            IF NeedsFallback(ParsedEntry(remote.normalized[i],
                                                         remote.pt[i]))
                            THEN Lookup("pending", NoUrlHaus, "none")
                            ELSE Lookup("none", NoUrlHaus, "none")]]
          /\ UNCHANGED analysis
  /\ UNCHANGED <<indexVars, aiVars, paneVars>>

\* URLHaus answers one lookup, or the request fails
UrlHausResponds ==
  /\ analysis = NoAnalysis
  /\ remote.pc = "urlhaus"
  /\ \E i \in Pending(remote.uh), answer \in UrlHausAnswers :
       remote' = [remote EXCEPT !.uh[i] = AfterUrlHaus(answer)]
  /\ UNCHANGED <<analysis, indexVars, aiVars, paneVars>>

\* every URLHaus lookup has settled: lines 1380-1422
UrlHausSettled ==
  /\ analysis = NoAnalysis
  /\ remote.pc = "urlhaus"
  /\ Pending(remote.uh) = {}
  /\ analysis' = Success(ParsedEntries(remote.normalized, remote.pt,
                                       remote.uh),
                         remote.links, remote.pt, remote.uh)
  /\ remote' = NoRemote
  /\ UNCHANGED <<indexVars, aiVars, paneVars>>

\* the response is sent
RemoteDeliver ==
  /\ analysis # NoAnalysis
  /\ analysis' = NoAnalysis
  /\ UNCHANGED <<indexVars, aiVars, remoteVars, paneVars>>

InitRemote ==
  /\ phishUrlIndex = EmptyMap
  /\ localDbStats = [loaded |-> FALSE, records |-> 0, indexSize |-> 0,
                     lastLoaded |-> "null"]
  /\ running = "none"
  /\ loadArr = <<>>
  /\ loadLen = 0
  /\ waiting = "none"
  /\ phishResp = NoResponse
  /\ analysis = NoAnalysis
  /\ DetectorNew
  /\ RemoteIdle
  /\ PaneLoaded

NextRemote ==
  \/ RemotePhishlink
  \/ PhishTankResponds
  \/ PhishTankSettled
  \/ UrlHausResponds
  \/ UrlHausSettled
  \/ RemoteDeliver

SpecRemote == InitRemote /\ [][NextRemote]_vars

(***************************************************************************)
(* The task pane (taskpane.js).  Its two buttons call analyzeEmailWithAI   *)
(* and testAIAnalysis (36, 43).  Both are async functions: a call runs to  *)
(* its first await within the click, and each later piece runs when the    *)
(* awaited promise settles.  Nothing bounds the time a promise takes, and  *)
(* nothing says that it settles at all.                                    *)
(***************************************************************************)
\* clicks on the test button that are followed
MaxTests == 4

\* links that extractLinksFromEmail finds in one email, at most
MaxPaneLinks == 2

\* testAIAnalysis: testEmails.length
TestEmails == 10

\* a call of fn suspended at the await of `at`; links is links.length of
\* analyzeEmailWithAI, test the scenario number of testAIAnalysis
Activation(fn, at, links, test) == [fn |-> fn, at |-> at, links |-> links, test |-> test]

\* showLoadingState (533-566)
showLoadingState == [status |-> "analyzing",
                     message |-> <<"AI is analyzing email content...">>,
                     links |-> "hidden", results |-> "hidden", phish |-> "hidden"]

\* showStatus (604-615)
showStatus(shown, message, type) == [shown EXCEPT !.status = type, !.message = message]

\* showSuccess (568-584)
showSuccess(shown, message) == showStatus(shown, message, "success")

\* showError (586-602)
showError(shown, message) == showStatus(shown, message, "error")

\* the messages of the errors that getEmailDataFromOutlook rejects with
\* (135, 188, 193)
EmailDataErrors == {"No email selected. Please open an email first.", "Could not read email content. Please try again.", "Could not access email. Make sure you have an email open."}

\* the messages of the errors that callAIBackend throws (218, 230)
BackendErrors == {"Backend error", "Cannot connect to AI backend. Make sure your Node.js server is running on port 3001."}

\* the catch blocks (115-118, 919-922)
FailureMessage(fn, message) == <<IF fn = "testAIAnalysis" THEN "Test failed: " ELSE "Analysis failed: ", message>>

\* the messages of success (114, 916-918); testAIAnalysis reads
\* testEmailIndex when its call resumes
SuccessMessage(fn, index) == IF fn = "testAIAnalysis" THEN <<"Test ", ToString(((index - 1) % TestEmails) + 1), " complete! Click again for next scenario.">> ELSE <<"AI analysis complete!">>

\* showLinksFound (1046-1059)
showLinksFound(shown, links) == [shown EXCEPT !.links = IF links = 0 THEN "none" ELSE "listed"]

\* displayAIResults (242-282): a result without analysis is reported by
\* showError inside the function, which throws nothing
displayAIResults(shown, hasAnalysis) == IF hasAnalysis THEN [shown EXCEPT !.results = "shown"] ELSE showError(shown, <<"Error displaying results: ", "No analysis data received from backend">>)

\* displayPhishLinks (1007-1032): bad tells whether a result has isPhish
displayPhishLinks(shown, bad) == [shown EXCEPT !.phish = IF bad THEN "listed" ELSE "none"]

\* the finally blocks (119-121, 922-924): the call is over
Finally(a) ==
  /\ isAnalyzing' = FALSE
  /\ activations' = activations (-) SetToBag({a})

\* the guard of both handlers without its test (59, 629)
NeverAnalyzing == FALSE

\* if (isAnalyzing) return;   (59-62, 629-632)
AlreadyAnalyzing == isAnalyzing

\* a click on analyze-btn: analyzeEmailWithAI up to its first await (56-69)
AnalyzeEmailWithAI ==
  /\ IF AlreadyAnalyzing
       THEN UNCHANGED paneVars
       ELSE /\ isAnalyzing' = TRUE
            /\ display' = showLoadingState
            /\ activations' = activations (+) SetToBag({Activation("analyzeEmailWithAI", "getEmailDataFromOutlook", 0, 0)})
            /\ UNCHANGED testEmailIndex
  /\ UNCHANGED <<indexVars, emailVars, aiVars, remoteVars>>

\* a click on test-btn: testAIAnalysis up to its await (626-914)
TestAIAnalysis ==
  /\ IF AlreadyAnalyzing
       THEN UNCHANGED paneVars
       ELSE /\ testEmailIndex < MaxTests
            /\ isAnalyzing' = TRUE
            /\ display' = showLoadingState
            /\ testEmailIndex' = testEmailIndex + 1
            /\ activations' = activations (+) SetToBag({Activation("testAIAnalysis", "callAIBackend", 0, (testEmailIndex % TestEmails) + 1)})
  /\ UNCHANGED <<indexVars, emailVars, aiVars, remoteVars>>

\* the promise of getEmailDataFromOutlook (128-196) settles: analyzeEmailWithAI
\* goes on to extractLinksFromEmail (69-77), or to catch and finally (115-121)
EmailDataSettles ==
  /\ \E a \in BagToSet(activations), settled \in {"resolved"} \cup EmailDataErrors :
       /\ a.at = "getEmailDataFromOutlook"
       /\ IF settled = "resolved"
            THEN /\ activations' = (activations (-) SetToBag({a})) (+) SetToBag({[a EXCEPT !.at = "extractLinksFromEmail"]})
                 /\ UNCHANGED <<isAnalyzing, display>>
            ELSE /\ display' = showError(display, FailureMessage(a.fn, settled))
                 /\ Finally(a)
  /\ UNCHANGED testEmailIndex
  /\ UNCHANGED <<indexVars, emailVars, aiVars, remoteVars>>

\* extractLinksFromEmail (937-988) settles; a failure leaves links empty
\* (74-78).  showLinksFound, then callAIBackend is awaited (80-83)
LinksSettle ==
  /\ \E a \in BagToSet(activations), links \in 0..MaxPaneLinks :
       /\ a.at = "extractLinksFromEmail"
       /\ display' = showLinksFound(display, links)
       /\ activations' = (activations (-) SetToBag({a})) (+) SetToBag({[a EXCEPT !.at = "callAIBackend", !.links = links]})
  /\ UNCHANGED <<isAnalyzing, testEmailIndex>>
  /\ UNCHANGED <<indexVars, emailVars, aiVars, remoteVars>>

\* callAIBackend (202-240) settles, for either function: 83-113, 914-918.
\* With links analyzeEmailWithAI goes on to callPhishLinkApi
BackendSettles ==
  /\ \E a \in BagToSet(activations), settled \in {"analysis", "no analysis"} \cup BackendErrors :
       /\ a.at = "callAIBackend"
       /\ IF settled \in BackendErrors
            THEN /\ display' = showError(display, FailureMessage(a.fn, settled))
                 /\ Finally(a)
            ELSE IF a.fn = "analyzeEmailWithAI" /\ a.links > 0
            THEN /\ display' = displayAIResults(display, settled = "analysis")
                 /\ activations' = (activations (-) SetToBag({a})) (+) SetToBag({[a EXCEPT !.at = "callPhishLinkApi"]})
                 /\ UNCHANGED isAnalyzing
            ELSE IF a.fn = "analyzeEmailWithAI"
            THEN /\ display' = showSuccess(displayPhishLinks(displayAIResults(display, settled = "analysis"), FALSE), SuccessMessage(a.fn, testEmailIndex))
                 /\ Finally(a)
            ELSE /\ display' = showSuccess(displayAIResults(display, settled = "analysis"), SuccessMessage(a.fn, testEmailIndex))
                 /\ Finally(a)
  /\ UNCHANGED testEmailIndex
  /\ UNCHANGED <<indexVars, emailVars, aiVars, remoteVars>>

\* callPhishLinkApi (994-1005) settles: a failure is shown as no result
\* (99-107); showSuccess and finally (110-121)
PhishLinksSettle ==
  /\ \E a \in BagToSet(activations), resolved \in BOOLEAN, bad \in BOOLEAN :
       /\ a.at = "callPhishLinkApi"
       /\ resolved \/ ~bad
       /\ display' = showSuccess(displayPhishLinks(display, bad), SuccessMessage(a.fn, testEmailIndex))
       /\ Finally(a)
  /\ UNCHANGED testEmailIndex
  /\ UNCHANGED <<indexVars, emailVars, aiVars, remoteVars>>

InitTaskpane ==
  /\ phishUrlIndex = EmptyMap
  /\ localDbStats = [loaded |-> FALSE, records |-> 0, indexSize |-> 0,
                     lastLoaded |-> "null"]
  /\ running = "none"
  /\ loadArr = <<>>
  /\ loadLen = 0
  /\ waiting = "none"
  /\ phishResp = NoResponse
  /\ analysis = NoAnalysis
  /\ DetectorNew
  /\ RemoteIdle
  /\ PaneLoaded

NextTaskpane ==
  \/ AnalyzeEmailWithAI
  \/ TestAIAnalysis
  \/ EmailDataSettles
  \/ LinksSettle
  \/ BackendSettles
  \/ PhishLinksSettle

SpecTaskpane == InitTaskpane /\ [][NextTaskpane]_vars

(***************************************************************************)
(* Properties of the index and of the lookup                               *)
(***************************************************************************)
KeySet(url) == Range(buildIndexKeys(url))

\* the key sets of the entries of arr, by position
RECURSIVE KeySets(_)
KeySets(arr) ==
  IF arr = <<>> THEN <<>>
  ELSE Append(KeySets(SubSeq(arr, 1, Len(arr) - 1)),
              KeySet(arr[Len(arr)].url))

\* the entries that generate key k, by position (ks: their key sets)
Writers(ks, k) == {i \in DOMAIN ks : k \in ks[i]}

MinOf(S) == CHOOSE x \in S : \A y \in S : x <= y

\* the keys of entry i that no earlier entry generates
FreshKeys(ks, i) == {k \in ks[i] : \A j \in 1..(i - 1) : k \notin ks[j]}

\* entry i is the value of one of its own keys
Reachable(index, arr, ks, i) ==
  \E k \in ks[i] : MapHas(index, k) /\ index[k] = arr[i]

HasStringUrl(rec) == ~rec.isNull /\ rec.url.t = "string" /\ rec.url.s # <<>>

\* the index of a whole array: each key maps to the first entry generating it
FullIndex(arr) ==
  LET ks == KeySets(arr)
  IN  [k \in UNION {ks[i] : i \in DOMAIN arr} |-> arr[MinOf(Writers(ks, k))]]

Answered == phishResp.status = 200

Results == Range(phishResp.results)

\* C5 as claimed: once the index is built, every record with a non-empty
\* string url is the value of at least one key of buildIndexKeys(record.url).
C5_EveryRecordReachable ==
  running = "none" =>
    LET ks == KeySets(loadArr)
    IN  \A i \in DOMAIN loadArr :
          HasStringUrl(loadArr[i]) => Reachable(phishUrlIndex, loadArr, ks, i)

\* C5 amended: a record is reachable through one of its keys exactly when
\* its url generates a key that no earlier-listed record generates; a record
\* all of whose keys were taken earlier, or whose url yields no key, is not.
C5_FreshRecordReachable ==
  LET ks == KeySets(loadArr)
  IN  \A i \in DOMAIN loadArr :
        Reachable(phishUrlIndex, loadArr, ks, i) <=> FreshKeys(ks, i) # {}

\* a built index of two records with colliding keys, the second still
\* reachable through a key of its own
C5_Witness ==
  /\ running = "none"
  /\ localDbStats.loaded
  /\ Len(loadArr) = 2
  /\ HasStringUrl(loadArr[1]) /\ HasStringUrl(loadArr[2])
  /\ KeySet(loadArr[1].url) \cap KeySet(loadArr[2].url) # {}
  /\ FreshKeys(KeySets(loadArr), 2) # {}
  /\ Reachable(phishUrlIndex, loadArr, KeySets(loadArr), 2)

\* C6 as claimed: when two records' key sets share a key, no lookup of any
\* URL returns the later-inserted record.
C6_LaterNeverReturned ==
  Answered =>
    LET ks == KeySets(phishResp.seenArr)
    IN  \A r \in Results :
          \A i \in DOMAIN ks : \A j \in DOMAIN ks :
            (i < j /\ ks[i] \cap ks[j] # {})
              => ~(r.inDatabase /\ r.phishId = j)

\* C6 amended: first writer wins per key: a lookup that matches through key
\* k returns the first-listed record whose url generates k; a later record
\* is returned only through a key that no earlier record generates.
C6_FirstWriterPerKey ==
  Answered =>
    LET ks == KeySets(phishResp.seenArr)
    IN  \A r \in Results :
          r.inDatabase =>
            /\ Writers(ks, r.matchedKey) # {}
            /\ r.phishId = MinOf(Writers(ks, r.matchedKey))

\* a lookup matched through a key that two records generate
C6_Witness ==
  /\ Answered
  /\ \E r \in Results :
       /\ r.inDatabase
       /\ Cardinality(Writers(KeySets(phishResp.seenArr), r.matchedKey)) = 2
       /\ r.phishId = 1

\* positions of the keys of link that the index has
PresentKeys(index, keys) == {i \in DOMAIN keys : MapHas(index, keys[i])}

\* C7: the lookup of a URL returns index[k] for the first key k of
\* buildIndexKeys(url), in generation order with the literal string first,
\* that the index has, and reports no match exactly when it has none.
C7_FirstPresentKey ==
  Answered =>
    \A r \in Results :
      LET keys == buildIndexKeys(JsStr(r.url))
          present == PresentKeys(phishResp.seenIndex, keys)
      IN  /\ keys # <<>> /\ keys[1] = r.url
          /\ r.inDatabase <=> present # {}
          /\ r.inDatabase =>
               /\ r.matchedKey = keys[MinOf(present)]
               /\ r.phishId = phishResp.seenIndex[keys[MinOf(present)]].phish_id

\* a lookup whose literal string is no key of the index and that has two
\* later keys in it, held by different records
C7_Witness ==
  /\ Answered
  /\ \E r \in Results :
       LET keys == buildIndexKeys(JsStr(r.url))
           present == PresentKeys(phishResp.seenIndex, keys)
       IN  /\ r.inDatabase
           /\ 1 \notin present
           /\ \E i \in present : \E j \in present :
                phishResp.seenIndex[keys[i]] # phishResp.seenIndex[keys[j]]

ParsedLink(l) ==
  ParseUrl(IF hasScheme(l) THEN l ELSE <<"http:", "/", "/">> \o l)

\* the link with the trailing slash of its path added or removed
ToggledLink(l) ==
  LET front == TakeUntil(l, {"?"})
      query == DropN(l, Len(front))
  IN  IF front[Len(front)] = "/"
      THEN SubSeq(front, 1, Len(front) - 1) \o query
      ELSE front \o <<"/">> \o query

\* C9 as claimed: for every parseable URL whose path is not "/", with or
\* without a query, its keys and the keys of the same URL with the trailing
\* slash of the path toggled have a key in common.
C9_ToggleOverlap ==
  Answered =>
    \A r \in Results :
      (ParsedLink(r.url).ok /\ ParsedLink(r.url).pathname # <<"/">>)
        => KeySet(JsStr(r.url)) \cap KeySet(JsStr(ToggledLink(r.url))) # {}

\* C10: no lookup observes a partially cleared or partially rebuilt index:
\* the index a /phishlink handler reads is the index of a whole array, the
\* one of the last load that reached the index, never that of a prefix.
C10_LookupSeesWholeIndex ==
  Answered =>
    /\ Len(phishResp.seenArr) = phishResp.seenLen
    /\ phishResp.seenIndex = FullIndex(phishResp.seenArr)

\* a request that arrived while a rebuild of two records was running, and
\* was answered from the rebuilt index
C10_Witness ==
  /\ Answered
  /\ phishResp.queued = "load"
  /\ phishResp.seenLen >= 2
  /\ \E r \in Results : r.inDatabase /\ r.phishId = 2

(***************************************************************************)
(* Properties of the detector                                              *)
(***************************************************************************)
\* an analysis of an email came back with a result
Analysed ==
  analysis.kind \in {"analyzeEmail", "test"} /\ ~analysis.result.threw

\* the risk level the thresholds 0.7 and 0.4 give the 0-1 score
LevelOfScore(score) ==
  IF 10 * score.num >= 7 * score.den THEN "high"
  ELSE IF 10 * score.num >= 4 * score.den THEN "medium"
  ELSE "low"

C2_ReadmeBands ==
  Analysed =>
    LET r == analysis.result
    IN  r.riskLevel = (IF r.suspicionScore <= 30 THEN "low"
                       ELSE IF r.suspicionScore <= 60 THEN "medium"
                       ELSE "high")

\* C3: analyzeEmail on the sample of /api/test (subject "URGENT: Account
\* Suspension Notice", a body with "suspended immediately", "verify your
\* information" and "password", no HTML body, no attachments) returns
\* riskLevel medium or high and urgency, threats and credentials counts
\* above 0.
C3_TestSampleFlagged ==
  (analysis.kind = "test" /\ ~analysis.result.threw) =>
    LET r == analysis.result
    IN  /\ r.riskLevel \in {"medium", "high"}
        /\ r.details.patternMatches.urgency > 0
        /\ r.details.patternMatches.threats > 0
        /\ r.details.patternMatches.credentials > 0

\* every entry of emailData.attachments is an object
EntriesAreObjects(emailData) ==
  \A i \in DOMAIN emailData.attachments.s :
    ~emailData.attachments.s[i].isNull

\* an entry without name, filename and size
Nameless(attachment) ==
  /\ ~attachment.isNull
  /\ Falsy(attachment.name)
  /\ Falsy(attachment.filename)
  /\ attachment.size < 0

FileAnalysed ==
  analysis.kind = "analyzeSingleAttachment" /\ analysis.attachment.name.s # <<>>

\* the name has at least three dot-separated segments, the second to last
\* one of pdf, doc, xls, ppt, txt, jpg, png and the last one of exe, scr,
\* bat, com, pif, in either case of letters
DoubleExtended(f) ==
  /\ Len(f) >= 2
  /\ LowerTok(f[Len(f) - 1])
       \in {".pdf", ".doc", ".xls", ".ppt", ".txt", ".jpg", ".png"}
  /\ LowerTok(f[Len(f)]) \in {".exe", ".scr", ".bat", ".com", ".pif"}

SizeOutOfRange(f, size) ==
  \/ hasDangerousExtension(f) /\ size < 10000
  \/ EndsWithAny(f, DocumentExtensions) /\ size > 50 * 1024 * 1024

SizeFlagged == "suspicious_size" \in Range(analysis.result.reasons)

\* C12 as stated: suspicious_size is a reason exactly when the file has a
\* dangerous extension and a size below 10 KB, or a document extension and
\* a size above 50 MB.
C12_SizeFlaggedIffOutOfRange ==
  FileAnalysed =>
    (SizeFlagged <=>
       SizeOutOfRange(analysis.attachment.name.s, analysis.result.size))

\* C12: suspicious_size is a reason exactly when the size is known and not
\* 0 and the file has a dangerous extension and fewer than 10000 bytes, or
\* a document extension and more than 50 * 1024 * 1024 bytes;
\* "report.docx" is flagged suspicious_size with riskLevel medium at 60 MB
\* and is not flagged at 10 MB.
C12_SizeFlaggedIffKnownAndOutOfRange ==
  FileAnalysed =>
    /\ SizeFlagged <=>
         /\ analysis.result.size # 0
         /\ SizeOutOfRange(analysis.attachment.name.s, analysis.result.size)
    /\ analysis.attachment.name.s = <<"report", ".docx">> =>
         /\ analysis.result.size = 60 * 1024 * 1024 =>
              SizeFlagged /\ analysis.result.riskLevel = "medium"
         /\ analysis.result.size = 10 * 1024 * 1024 => ~SizeFlagged

\* "report.docx" at 60 MB
C12_Witness ==
  /\ FileAnalysed
  /\ analysis.attachment.name.s = <<"report", ".docx">>
  /\ analysis.result.size = 60 * 1024 * 1024
  /\ analysis.result.reasons = <<"suspicious_size">>
  /\ analysis.result.riskLevel = "medium"

RiskRank(level) ==
  CASE level = "low" -> 0 [] level = "medium" -> 1 [] level = "high" -> 2

\* C20: across the six checks of analyzeSingleAttachment the risk level
\* only moves upward: no check leaves a lower level than the one before it,
\* a check leaves medium only when the level was low or medium before, and
\* the final level is high iff the dangerous-extension, script or
\* double-extension check fired.
C20_RiskOnlyRises ==
  FileAnalysed =>
    LET r == analysis.result
    IN  /\ Len(r.levels) = 6
        /\ RiskRank(r.levels[1]) >= RiskRank("low")
        /\ \A i \in 1..5 : RiskRank(r.levels[i + 1]) >= RiskRank(r.levels[i])
        /\ r.riskLevel = r.levels[6]
        /\ r.riskLevel = "high" <=>
             Range(r.reasons) \cap {"dangerous_extension", "script_file",
                                    "double_extension"} # {}
        /\ r.riskLevel = "medium" <=>
             /\ r.reasons # <<>>
             /\ Range(r.reasons) \subseteq {"archive_file", "suspicious_name",
                                            "suspicious_size"}

\* the first check set high and a later medium check fired
C20_Witness ==
  /\ FileAnalysed
  /\ analysis.result.levels[1] = "high"
  /\ "suspicious_name" \in Range(analysis.result.reasons)
  /\ "suspicious_size" \in Range(analysis.result.reasons)
  /\ analysis.result.riskLevel = "high"

(***************************************************************************)
(* Properties of the link checks                                           *)
(***************************************************************************)
LinkChecked == analysis.kind = "isLinkSuspicious"

\* new URL(...) as hasTextMismatch builds it
LinkUrlObj(url) ==
  ParseUrl(IF url # <<>> /\ Head(url) \in {"http:", "https:"} THEN url
           ELSE <<"http:", "/", "/">> \o url)

\* the anchor text names a domain that is no substring of the host name
NamesOtherDomain(text, url) ==
  \E td \in Range(text) \cap DomainToks :
     ~Includes(LinkUrlObj(url).hostname, <<LowerTok(td)>>)

\* C13, as stated: a link whose URL has a host name is flagged text_mismatch
\* exactly when its anchor text names a domain that is no substring of the
\* host name and the anchor text is not one of the four generic phrases.
\* The code exempts every text that CONTAINS a generic phrase, so
\* "paypal.com click here" on another host is not flagged.
C13_MismatchIffOtherDomainAndNotGeneric ==
  (LinkChecked /\ LinkUrlObj(analysis.link.url).ok) =>
     ( "text_mismatch" \in Range(analysis.result.reasons)
         <=> ( /\ NamesOtherDomain(analysis.link.text, analysis.link.url)
               /\ ToLowerCase(analysis.link.text) \notin GenericTexts ) )

\* the host name of the link is a shortener or a subdomain of one
PointsToShortener(url) ==
  /\ LinkUrlObj(url).ok
  /\ \E s \in Shorteners :
       \/ LinkUrlObj(url).hostname = <<s>>
       \/ EndsWith(LinkUrlObj(url).hostname, <<".", s>>)

\* C14, as stated: a link has the reason url_shortener only when its host
\* name is one of the shortener domains or a subdomain of one.  The code
\* looks for the shortener's name anywhere in the URL, so
\* https://microsoft.com (which contains "t.co") is flagged.
C14_ShortenerOnlyForShortenerHosts ==
  (LinkChecked /\ "url_shortener" \in Range(analysis.result.reasons))
     => PointsToShortener(analysis.link.url)

(***************************************************************************)
(* Properties of the Ollama detector and of the analysis endpoints         *)
(***************************************************************************)
Parsed == analysis.kind = "parseAnalysisResult"

\* parseAnalysisResult was called with what callOllama returns
OfModelResponse == Parsed /\ analysis.result.t = "object"

\* the response is text
OfText == OfModelResponse /\ analysis.result.s[1].response.t = "string"

\* JSON.parse of the response text, an optional code fence stripped
ResponseJson == JsonParse(JsonStringOf(analysis.result.s[1].response.s))

\* the degraded verdict
IsFallback(v) ==
  /\ v.riskLevel = "medium"
  /\ v.confidence = 30
  /\ v.suspiciousPatterns = <<"AI response parsing failed">>

\* v.riskLevel is the document's when that is low, medium or high, else medium
ValidRisk(a, v) ==
  /\ v.riskLevel \in RiskLevels
  /\ IF a.riskLevel.t = "string" /\ a.riskLevel.s \in {<<l>> : l \in RiskLevels}
     THEN <<v.riskLevel>> = a.riskLevel.s
     ELSE v.riskLevel = "medium"

\* v.confidence is the document's brought into 0..100, 50 when it is no number
ValidConfidence(a, v) ==
  /\ v.confidence \in 0..100
  /\ a.confidence.t # "number" => v.confidence = 50
  /\ (a.confidence.t = "number" /\ a.confidence.n \in 0..100)
        => v.confidence = a.confidence.n

\* C15, as stated: parseAnalysisResult never throws; a response that is not
\* parseable JSON gives the fallback verdict (medium, 30, "AI response
\* parsing failed"); parseable JSON gives a riskLevel among low, medium and
\* high (medium when invalid) and a confidence in 0..100 (50 when it is no
\* number).  The JSON document null parses, and gives the fallback: its
\* confidence is 30, not 50.
C15_FallbackIffUnparseable ==
  OfModelResponse =>
    /\ ~analysis.returned.threw
    /\ ~OfText => IsFallback(analysis.returned)
    /\ OfText =>
         IF ~ResponseJson.ok THEN IsFallback(analysis.returned)
         ELSE /\ ValidRisk(ResponseJson.value, analysis.returned)
              /\ ValidConfidence(ResponseJson.value, analysis.returned)

\* C15, amended: parseAnalysisResult never throws; it returns the fallback
\* verdict when the response is no text, is not parseable JSON, is the JSON
\* document null, or when no email object is given; for every other
\* parseable document it returns a riskLevel among low, medium and high
\* (medium when invalid) and a confidence in 0..100 (50 when no number).
C15_FallbackOrValidated ==
  OfModelResponse =>
    /\ ~analysis.returned.threw
    /\ ~OfText => IsFallback(analysis.returned)
    /\ OfText =>
         IF \/ ~ResponseJson.ok
            \/ ResponseJson.value.type = "null"
            \/ analysis.originalEmailData.t # "object"
         THEN IsFallback(analysis.returned)
         ELSE /\ ValidRisk(ResponseJson.value, analysis.returned)
              /\ ValidConfidence(ResponseJson.value, analysis.returned)

\* the model answered null inside a code fence and the fallback is returned
C15_Witness ==
  /\ OfText
  /\ IncludesFence(analysis.result.s[1].response.s, "fence json")
  /\ ResponseJson.ok
  /\ ResponseJson.value.type = "null"
  /\ analysis.originalEmailData.t = "object"
  /\ IsFallback(analysis.returned)

\* ollamaDetector.analyzeEmail has settled for its caller
AiCallSettled == analysis.kind = "OllamaDetector.analyzeEmail"

HasVerdict(r) == r.error # "no verdict"

\* the generate request of the settled call completed with an OK response
\* before the timer of this.timeout fired
CompletedInTime(g) ==
  /\ g.sent
  /\ g.kind = "ok"
  /\ ~g.timerFired
  /\ g.duration <= g.timeout
  /\ g.timeout = timeout

\* C16: analyzeEmail resolves with a verdict only when its generate request
\* completed with an OK response within the configured timeout (30000 ms
\* unless configured), and then stats.successfulRequests is one more than
\* before; after a timeout, a transport failure, a status that is not OK,
\* an unreadable body or a failed health check it rejects with an error,
\* returns no verdict and leaves stats.successfulRequests as it was.
C16_VerdictOnlyAfterOkInTime ==
  /\ timeout \in {DefaultTimeout} \cup (TimeoutOptions \ {0})
  /\ AiCallSettled =>
       IF CompletedInTime(analysis.hist.generate)
       THEN /\ analysis.settled = "resolved"
            /\ HasVerdict(analysis.result)
            /\ stats.successfulRequests = analysis.hist.successfulBefore + 1
       ELSE /\ analysis.settled = "rejected"
            /\ ~HasVerdict(analysis.result)
            /\ analysis.error # <<>>
            /\ stats.successfulRequests = analysis.hist.successfulBefore

\* a call is rejected because the timer fired on an answer that would have
\* been OK, after another call had succeeded
C16_Witness ==
  /\ AiCallSettled
  /\ analysis.settled = "rejected"
  /\ analysis.hist.generate.sent
  /\ analysis.hist.generate.kind = "ok"
  /\ analysis.hist.generate.timerFired
  /\ analysis.hist.generate.timeout = DefaultTimeout
  /\ stats.successfulRequests = 1
  /\ stats.totalRequests = 2

HeuristicAnswered == analysis.kind = "POST /api/analyze-suspiciousness"

AiAnswered == analysis.kind = "POST /api/analyze-with-ai"

\* subject or body is given
HasContent(emailData) == ~(Falsy(emailData.subject) /\ Falsy(emailData.body))

\* a valid email: it has content and its attachments, if any, are objects
ValidEmail(emailData) ==
  /\ HasContent(emailData)
  /\ emailData.attachments.t = "array" =>
       \A i \in DOMAIN emailData.attachments.s :
          ~emailData.attachments.s[i].isNull

\* C17: in every state of the Ollama detector, POST
\* /api/analyze-suspiciousness with a valid email answers 200 with the
\* complete heuristic analysis of that email; and POST /api/analyze-with-ai
\* with an email that has content, arriving while stats.available is false,
\* answers 503 "Ollama AI is not available" with error = stats.error and
\* sends no request to the model.
C17_HeuristicsIndependentOfOllama ==
  /\ (HeuristicAnswered /\ ValidEmail(analysis.emailData)) =>
       /\ analysis.status = 200
       /\ analysis.body.status = "success"
       /\ ~analysis.body.analysis.threw
       /\ \E polarity \in ApiPolarities :
            analysis.body.analysis = analyzeEmail(analysis.emailData, polarity)
  /\ (AiAnswered /\ HasContent(analysis.emailData) /\ ~analysis.hist.arrival) =>
       /\ analysis.status = 503
       /\ analysis.body.message = "Ollama AI is not available"
       /\ analysis.body.error = stats.error
       /\ ~analysis.hist.generate.sent

\* the AI endpoint turns a request away with the reason of the failed
\* health check, while a call made earlier still waits for the model
C17_Witness ==
  /\ AiAnswered
  /\ analysis.status = 503
  /\ analysis.body.error = "fetch failed"
  /\ ~stats.available
  /\ \E c \in BagToSet(calls) : c.pc = "generate"

(***************************************************************************)
(* POST /phishlink with remote lookups                                     *)
(***************************************************************************)
RemoteAnswered ==
  /\ analysis # NoAnalysis
  /\ analysis.kind = "POST /phishlink (remote)"
  /\ analysis.links # <<>>

\* the submitted urls: the entries that are strings, without the white
\* space around them, when something is left
Submitted(links) ==
  {Trim(links[i].s) : i \in {j \in DOMAIN links :
                               /\ links[j].t = "string"
                               /\ Trim(links[j].s) # <<>>}}

\* where a url is submitted first
FirstAt(links, url) ==
  CHOOSE i \in DOMAIN links :
    /\ links[i].t = "string" /\ Trim(links[i].s) = url
    /\ \A j \in 1..(i - 1) : ~(links[j].t = "string" /\ Trim(links[j].s) = url)

\* one result per distinct url, in the order of submission
OnePerUrlInOrder(links, results) ==
  /\ {results[i].url : i \in DOMAIN results} = Submitted(links)
  /\ Len(results) = Cardinality(Submitted(links))
  /\ \A i, j \in DOMAIN results :
       i < j => FirstAt(links, results[i].url) < FirstAt(links, results[j].url)

\* the entry of a url as its own two lookups make it
PrimaryPart(r) ==
  [inDatabase |-> r.inDatabase, isPhish |-> r.isPhish, error |-> r.error]

EntryAsLookedUp(r, pt, uh) ==
  /\ IF pt.state = "rejected"
     THEN PrimaryPart(r) = [inDatabase |-> FALSE, isPhish |-> "null",
                            error |-> pt.reason]
          /\ pt.reason # "none"
     ELSE [r EXCEPT !.urlhaus = NoUrlHaus] = pt.value
  /\ CASE uh.state = "rejected" ->
            r.urlhaus = [present |-> TRUE, listed |-> FALSE,
                         error |-> uh.reason]
       [] uh.state = "fulfilled" -> r.urlhaus = uh.value
       [] OTHER -> r.urlhaus = NoUrlHaus

\* C18: the answer to a request with links holds one result per distinct
\* non-empty (trimmed) url that was submitted, in the order of submission; a
\* url whose PhishTank lookup is rejected gets an entry with inDatabase false,
\* isPhish null and the error message; a rejected URLHaus lookup is recorded
\* as urlhaus.error of its entry; and every entry is what the lookups of its
\* own url make it, whatever happened to the lookups of the other urls.
C18_OneResultPerUrlFailuresIsolated ==
  RemoteAnswered =>
    /\ analysis.status = 200
    /\ analysis.body.total = Cardinality(Submitted(analysis.links))
    /\ OnePerUrlInOrder(analysis.links, analysis.body.results)
    /\ \A i \in DOMAIN analysis.body.results :
         EntryAsLookedUp(analysis.body.results[i], analysis.pt[i],
                         analysis.uh[i])

\* two urls, submitted more than once and between other entries: the
\* PhishTank lookup of the first and the URLHaus lookup of the second are
\* rejected
C18_Witness ==
  /\ RemoteAnswered
  /\ Len(analysis.links) > Len(analysis.body.results)
  /\ Len(analysis.body.results) = 2
  /\ analysis.pt[1].state = "rejected"
  /\ analysis.pt[2].state = "fulfilled"
  /\ analysis.uh[1].state = "fulfilled"
  /\ analysis.uh[2].state = "rejected"
  /\ analysis.body.results[1].urlhaus.error = "none"
  /\ analysis.body.results[2].error = "none"

(***************************************************************************)
(* calculateOverallScore                                                   *)
(***************************************************************************)
ScoreCalculated ==
  /\ analysis # NoAnalysis
  /\ analysis.kind = "calculateOverallScore"

\* a thousand times 0.3*min(total/10, 1) + 0.2*sentiment + 0.1*punctuation
\* + 0.2*links + 0.2*attachments, for sub-scores given in tenths
WeightedThousandths(total, tenths) ==
  30 * Min(total, 10) + 20 * tenths.sentiment + 10 * tenths.punctuation
    + 20 * tenths.links + 20 * tenths.attachments

\* C19: calculateOverallScore returns min(0.3*min(total/10, 1)
\* + 0.2*sentiment.suspiciousness + 0.1*punctuation + 0.2*links.suspicionScore
\* + 0.2*attachments.suspicionScore, 1); the weights sum to 1 (all channels
\* full give exactly 1), the pattern channel is full at 10 matches and stays
\* so above, and the result lies in [0,1] for sub-scores in [0,1].
C19_WeightedSumCapped ==
  ScoreCalculated =>
    /\ 1000 * analysis.score.num =
         analysis.score.den
           * Min(WeightedThousandths(analysis.total, analysis.tenths), 1000)
    /\ analysis.score.num >= 0
    /\ analysis.score.num <= analysis.score.den
    /\ analysis.total >= 10
         => /\ 1000 * analysis.score.num >= 300 * analysis.score.den
            /\ (/\ analysis.tenths.sentiment = 10
                /\ analysis.tenths.punctuation = 10
                /\ analysis.tenths.links = 10
                /\ analysis.tenths.attachments = 10)
                 => analysis.score = Frac(1, 1)
    /\ (analysis.total >= 10 /\ analysis.tenths.sentiment = 0
        /\ analysis.tenths.punctuation = 0 /\ analysis.tenths.links = 0
        /\ analysis.tenths.attachments = 0)
         => analysis.score = Frac(3, 10)

\* more than 10 matches and nothing else: the score is 0.3
C19_Witness ==
  /\ ScoreCalculated
  /\ analysis.total > 10
  /\ analysis.tenths = [sentiment |-> 0, punctuation |-> 0, links |-> 0,
                        attachments |-> 0]
  /\ analysis.score = Frac(3, 10)

(***************************************************************************)
(* checkPunctuation                                                        *)
(***************************************************************************)
PunctuationChecked ==
  /\ analysis # NoAnalysis
  /\ analysis.kind = "checkPunctuation"

\* the pieces of a text between spaces, tabs and line feeds
RECURSIVE WhitespaceDelimited(_)
WhitespaceDelimited(text) ==
  LET first == TakeUntil(text, {" ", "\t", "\n"})
  IN  IF Len(first) = Len(text) THEN <<first>>
      ELSE <<first>> \o WhitespaceDelimited(DropN(text, Len(first) + 1))

CapitalWords(text) ==
  Cardinality({i \in DOMAIN WhitespaceDelimited(text) :
                 IsCapsWord(WhitespaceDelimited(text)[i])})

\* the score of the statement, in tenths
StatedTenths(text) ==
  (IF CountTok(text, "!") > 3 THEN 2 ELSE 0)
    + (IF CountTok(text, "?") > 3 THEN 1 ELSE 0)
    + (IF CapitalWords(text) > 2 THEN 3 ELSE 0)

\* C21: checkPunctuation returns, capped at 1, 0.2 for more than 3 "!" plus
\* 0.1 for more than 3 "?" plus 0.3 for more than 2 tokens delimited by
\* white space (space, tab or line feed) that are all upper-case letters and
\* longer than 3 characters, and nothing else.
C21_PunctuationScoreAsStated ==
  PunctuationChecked =>
    analysis.score = Frac(Min(StatedTenths(analysis.text), 10), 10)

(***************************************************************************)
(* generateExplanation                                                     *)
(***************************************************************************)
Explained ==
  /\ analysis # NoAnalysis
  /\ analysis.kind = "generateExplanation"

\* the place of a finding in the stated order
FindingRank(what) ==
  CASE what = "urgency" -> 1
    [] what = "threats" -> 2
    [] what = "authority" -> 3
    [] what = "credentials" -> 4
    [] what = "rewards" -> 5
    [] what = "negative" -> 6

Named(explanation, what) ==
  \E i \in DOMAIN explanation : explanation[i].what = what

CategoryNamed(explanation, what, count) ==
  /\ Named(explanation, what) <=> count > 0
  /\ \A i \in DOMAIN explanation :
       explanation[i].what = what => explanation[i].count = count

\* C22: generateExplanation lists its findings in the order urgency, threats,
\* authority, credentials, rewards, negative sentiment; a category is listed
\* exactly when its count is above 0 (with that count) and the sentiment flag
\* exactly when suspiciousness is above 0.3; the text is "No significant
\* suspicious indicators detected." (no sentence) exactly when none fires.
C22_FindingsInFixedOrder ==
  Explained =>
    /\ \A i, j \in DOMAIN analysis.explanation :
         i < j => FindingRank(analysis.explanation[i].what)
                    < FindingRank(analysis.explanation[j].what)
    /\ CategoryNamed(analysis.explanation, "urgency",
                     analysis.patternScores.urgency)
    /\ CategoryNamed(analysis.explanation, "threats",
                     analysis.patternScores.threats)
    /\ CategoryNamed(analysis.explanation, "authority",
                     analysis.patternScores.authority)
    /\ CategoryNamed(analysis.explanation, "credentials",
                     analysis.patternScores.credentials)
    /\ CategoryNamed(analysis.explanation, "rewards",
                     analysis.patternScores.rewards)
    /\ Named(analysis.explanation, "negative") <=> analysis.tenths > 3
    /\ analysis.explanation = <<>>
         <=> (analysis.patternScores.total = 0 /\ analysis.tenths <= 3)

\* all six findings fire
C22_Witness ==
  /\ Explained
  /\ Len(analysis.explanation) = 6
  /\ analysis.patternScores.threats = 3
  /\ analysis.patternScores.authority = 1
  /\ analysis.tenths = 4

(***************************************************************************)
(* countSuspiciousPatterns                                                 *)
(***************************************************************************)
PatternsCounted ==
  /\ analysis # NoAnalysis
  /\ analysis.kind = "countSuspiciousPatterns"

\* the places where a phrase stands in a text as whole words, whatever the
\* case of the letters: a token is a whole word or one other character
WholeWordPlaces(text, phrase) ==
  {i \in 1..(Len(text) - Len(phrase) + 1) :
     ToLowerCase(SubSeq(text, i, i + Len(phrase) - 1)) = phrase}

Occurring(text, patterns) ==
  SumSeq([k \in DOMAIN patterns |->
            Cardinality(WholeWordPlaces(text, patterns[k]))])

\* C23: countSuspiciousPatterns counts, per category, the whole-word
\* case-insensitive occurrences of each phrase without a cap; total is the
\* sum of the five counts; a text with "bank account" counts in authority
\* and in credentials; an empty text gives zero everywhere.
C23_CountsPerCategoryAndTotal ==
  PatternsCounted =>
    /\ analysis.scores.urgency = Occurring(analysis.text, UrgencyPatterns)
    /\ analysis.scores.authority = Occurring(analysis.text, AuthorityPatterns)
    /\ analysis.scores.threats = Occurring(analysis.text, ThreatsPatterns)
    /\ analysis.scores.credentials
         = Occurring(analysis.text, CredentialsPatterns)
    /\ analysis.scores.rewards = Occurring(analysis.text, RewardsPatterns)
    /\ analysis.scores.total
         = analysis.scores.urgency + analysis.scores.authority
             + analysis.scores.threats + analysis.scores.credentials
             + analysis.scores.rewards
    /\ WholeWordPlaces(analysis.text, <<"bank", " ", "account">>) # {}
         => analysis.scores.authority >= 1 /\ analysis.scores.credentials >= 1
    /\ analysis.text \in {<<>>, <<" ">>} => analysis.scores.total = 0

\* one word twelve times: twelve matches in its category and in total
C23_Witness ==
  /\ PatternsCounted
  /\ analysis.scores.urgency = 12
  /\ analysis.scores.total = 12

\* "bank account details": authority once, credentials twice
C23_WitnessTwoCategories ==
  /\ PatternsCounted
  /\ analysis.scores.authority = 1
  /\ analysis.scores.credentials = 2
  /\ analysis.scores.total = 3

(***************************************************************************)
(* suspicionScore of analyzeLinks and analyzeAttachments                   *)
(***************************************************************************)
EmailAnalysed ==
  /\ analysis # NoAnalysis
  /\ analysis.kind = "analyzeEmail"
  /\ ~analysis.result.threw

WithReasons(details) ==
  Cardinality({i \in DOMAIN details : details[i].reasons # <<>>})

\* suspicious / total, 0 without items, for the counts reported
ShareReported(total, suspicious, score, details) ==
  /\ total = Len(details)
  /\ suspicious = WithReasons(details)
  /\ \A i \in DOMAIN details :
       details[i].isSuspicious <=> details[i].reasons # <<>>
  /\ suspicious <= total
  /\ score = IF total = 0 THEN Frac(0, 1) ELSE Frac(suspicious, total)
  /\ score.den > 0 /\ 0 <= score.num /\ score.num <= score.den

\* C24: analyzeLinks and analyzeAttachments report suspicionScore =
\* suspicious items / items, 0 without items and within [0,1]; the count of
\* suspicious items is at most the number of items; an item counts as
\* suspicious exactly when its list of reasons is not empty.
C24_ScoreIsShareOfSuspiciousItems ==
  EmailAnalysed =>
    /\ ShareReported(analysis.result.details.linkAnalysis.totalLinks,
                     analysis.result.details.linkAnalysis.suspiciousLinks,
                     analysis.result.details.linkAnalysis.suspicionScore,
                     analysis.result.details.linkAnalysis.details)
    /\ ShareReported(
         analysis.result.details.attachmentAnalysis.totalAttachments,
         analysis.result.details.attachmentAnalysis.suspiciousAttachments,
         analysis.result.details.attachmentAnalysis.suspicionScore,
         analysis.result.details.attachmentAnalysis.details)

\* one of two links and one of two attachments are suspicious
C24_Witness ==
  /\ EmailAnalysed
  /\ analysis.result.details.linkAnalysis.totalLinks = 2
  /\ analysis.result.details.linkAnalysis.suspicionScore = Frac(1, 2)
  /\ analysis.result.details.attachmentAnalysis.totalAttachments = 2
  /\ analysis.result.details.attachmentAnalysis.suspicionScore = Frac(1, 2)

\* an html body without links and no attachments: both scores are 0
C24_WitnessNoItems ==
  /\ EmailAnalysed
  /\ analysis.emailData.htmlBody # JsUndefined
  /\ analysis.emailData.htmlBody.s # <<>>
  /\ analysis.result.details.linkAnalysis.totalLinks = 0
  /\ analysis.result.details.linkAnalysis.suspicionScore = Frac(0, 1)
  /\ analysis.result.details.attachmentAnalysis.suspicionScore = Frac(0, 1)

(***************************************************************************)
(* The punctuation channel of analyzeEmail                                 *)
(***************************************************************************)
\* the fused score of a result had its punctuation score been 0
ScoreWithoutPunctuation(details) ==
  calculateOverallScore(details.patternMatches, details.sentiment,
                        Frac(0, 1), details.linkAnalysis,
                        details.attachmentAnalysis)

\* C25: analyzeEmail hands checkPunctuation the lower-cased text, so the
\* bonus for words in capitals never applies: details.punctuation is 0, 0.1,
\* 0.2 or 0.3 whatever the capitalisation of subject and body, and the
\* punctuation channel adds at most 0.03 to the fused score.
C25_CapsBonusNeverApplies ==
  EmailAnalysed =>
    /\ analysis.result.details.punctuation
         \in {Frac(0, 1), Frac(1, 10), Frac(2, 10), Frac(3, 10)}
    /\ FracGeq(FracAdd(ScoreWithoutPunctuation(analysis.result.details),
                       Frac(3, 100)),
               analysis.result.score)

\* a subject of three words in capitals over a body with more than three
\* "!" and "?": the text as written would score 0.6, the result holds 0.3
C25_Witness ==
  /\ EmailAnalysed
  /\ analysis.emailData.subject = JsStr(AlarmSubject)
  /\ checkPunctuation(AlarmSubject \o <<" ">> \o AlarmBody) = Frac(6, 10)
  /\ analysis.result.details.punctuation = Frac(3, 10)

(***************************************************************************)
(* Emails of text alone                                                    *)
(***************************************************************************)
TextOnly(emailData) ==
  /\ Falsy(emailData.htmlBody)
  /\ emailData.attachments.s = <<>>

\* C26: an email without htmlBody and without attachments never gets
\* riskLevel high: links and attachments contribute 0 and no weight moves to
\* the other channels, so the score is at most 0.3 + 0.2 + 0.03 = 0.53 and
\* suspicionScore at most 53, whatever the text.
C26_TextOnlyNeverHigh ==
  (EmailAnalysed /\ TextOnly(analysis.emailData)) =>
    /\ analysis.result.riskLevel # "high"
    /\ analysis.result.suspicionScore <= 53
    /\ 100 * analysis.result.score.num <= 53 * analysis.result.score.den
    /\ analysis.result.details.linkAnalysis.suspicionScore = Frac(0, 1)
    /\ analysis.result.details.attachmentAnalysis.suspicionScore = Frac(0, 1)

\* the text that fills the three channels: 53 and medium
C26_Witness ==
  /\ EmailAnalysed
  /\ TextOnly(analysis.emailData)
  /\ analysis.result.details.patternMatches.total > 10
  /\ analysis.result.details.sentiment.score < 0 - 10
  /\ analysis.result.suspicionScore = 53
  /\ analysis.result.riskLevel = "medium"

(***************************************************************************)
(* Explanation and risk level of one result                                *)
(***************************************************************************)
\* C27: a result of analyzeEmail whose explanation is "No significant
\* suspicious indicators detected." (no sentence) has riskLevel low; a result
\* with riskLevel medium or high names at least one finding.
C27_NoFindingsImpliesLow ==
  EmailAnalysed =>
    (analysis.result.explanation = <<>> => analysis.result.riskLevel = "low")

(***************************************************************************)
(* The load statistics and the index                                       *)
(***************************************************************************)
\* no call of loadLocalPhishDb is running
LoadsOver == running = "none"

ReportsKnownWhileUnloaded(resp) ==
  /\ resp.status = 200
  /\ ~resp.dbLoaded
  /\ \E i \in DOMAIN resp.results : resp.results[i].inDatabase

\* C28: after any sequence of successful and failed calls of
\* loadLocalPhishDb, localDbStats.indexSize is the number of keys of
\* phishUrlIndex, the index is empty whenever localDbStats.loaded is false,
\* and /phishlink never answers inDatabase = true with dbLoaded = false.
C28_StatsAgreeWithIndex ==
  /\ LoadsOver =>
       /\ localDbStats.indexSize = MapSize(phishUrlIndex)
       /\ ~localDbStats.loaded => phishUrlIndex = EmptyMap
  /\ ~ReportsKnownWhileUnloaded(phishResp)

\* after calls that all succeeded, or of which the last one succeeded, the
\* statistics agree with the index
C28_AgreeAfterSuccess ==
  (LoadsOver /\ localDbStats.loaded) =>
    localDbStats.indexSize = MapSize(phishUrlIndex)

\* a failed call after a successful one: the index keeps its keys, and a
\* request is answered inDatabase = true with dbLoaded = false
C28_StaleIndexReported == ReportsKnownWhileUnloaded(phishResp)

(***************************************************************************)
(* The AI endpoints after a failed start-up health check                   *)
(***************************************************************************)
\* the start-up health check has been answered and stats.available is false
Stuck == stats.lastChecked # "null" /\ ~stats.available

AiEndpointAnswered ==
  /\ analysis # NoAnalysis
  /\ analysis.kind \in {"POST /api/analyze-with-ai", "GET /api/test-ai"}

\* C29 as stated: once stats.available is false after the start-up health
\* check, every later request to /api/analyze-with-ai and /api/test-ai is
\* answered 503 without a call of checkHealth or callOllama, and
\* stats.available never becomes true again.
C29_Always503 ==
  /\ [](Stuck => /\ calls = EmptyBag
                 /\ AiEndpointAnswered
                      => analysis.status = 503 /\ ~analysis.hist.generate.sent)
  /\ [][Stuck => Stuck']_vars

\* C29, amended: once stats.available is false after the start-up health
\* check, no request to /api/analyze-with-ai or /api/test-ai calls
\* checkHealth or callOllama: it is answered 503, or 400 when the request
\* to /api/analyze-with-ai has neither subject nor body; stats.available
\* never becomes true again.
C29_NoRecovery ==
  /\ [](Stuck => /\ calls = EmptyBag
                 /\ AiEndpointAnswered
                      => /\ analysis.status \in {400, 503}
                         /\ analysis.status = 400
                              => /\ Falsy(analysis.emailData.subject)
                                 /\ Falsy(analysis.emailData.body)
                         /\ ~analysis.hist.generate.sent)
  /\ [][Stuck => Stuck']_vars

\* the health check failed at start-up and /api/test-ai answers 503
C29_Witness ==
  /\ Stuck
  /\ AiEndpointAnswered
  /\ analysis.kind = "GET /api/test-ai"
  /\ analysis.status = 503
  /\ analysis.body.error = "fetch failed"

\* the same for /api/analyze-with-ai and an email with content
C29_WitnessAnalyze ==
  /\ Stuck
  /\ AiEndpointAnswered
  /\ analysis.kind = "POST /api/analyze-with-ai"
  /\ ~Falsy(analysis.emailData.subject)
  /\ analysis.status = 503

(***************************************************************************)
(* C30: in the task pane at most one analysis (analyzeEmailWithAI or       *)
(* testAIAnalysis) is in progress at any time; a click on either button    *)
(* while isAnalyzing is true starts nothing and changes no state; and      *)
(* isAnalyzing is false again whenever the running analysis has ended, by  *)
(* success or by failure, so that the next click starts an analysis.       *)
(***************************************************************************)
\* at most one call is suspended, and isAnalyzing tells whether one is
OneAnalysisAtATime ==
  /\ BagCardinality(activations) <= 1
  /\ isAnalyzing <=> activations # EmptyBag

\* a step that a click takes while isAnalyzing is true changes nothing
ClickWhileAnalyzingIgnored ==
  (isAnalyzing /\ (AnalyzeEmailWithAI \/ TestAIAnalysis)) => UNCHANGED vars

\* an analysis that ends leaves isAnalyzing false
EndResets ==
  BagCardinality(activations') < BagCardinality(activations) => ~isAnalyzing'

C30_OneAnalysisAtATime ==
  /\ []OneAnalysisAtATime
  /\ [][ClickWhileAnalyzingIgnored /\ EndResets]_vars

\* a second test analysis runs: the first one has ended and the flag was
\* reset, and the click that followed started this one
C30_Witness ==
  /\ isAnalyzing
  /\ testEmailIndex >= 2
  /\ \E a \in BagToSet(activations) : a.fn = "testAIAnalysis"

\* an analysis has ended by a failure and the flag is reset
C30_WitnessFailure ==
  /\ ~isAnalyzing
  /\ activations = EmptyBag
  /\ display.status = "error"

=============================================================================
